---- MODULE Spec2Model ----
(***************************************************************************)
(* Session index and history-log maintenance of codex-history-vscode:      *)
(* the extension core HistoryManager (vscode-extension/src/core/           *)
(* historyManager.ts, second copy in the file, lines 669-1667), the path   *)
(* resolver (core/paths.ts) and the state store (core/state.ts).           *)
(*                                                                         *)
(* Modelling conventions                                                   *)
(*  - a string of the program is a sequence of one-character strings;      *)
(*    a non-ASCII character is written as one element "Uxxxx";             *)
(*  - a directory is the sequence of its components, a file path is a      *)
(*    record [dir, name]; every file name ends in ".jsonl" (not written);  *)
(*  - the file system is a function from the existing paths to contents;   *)
(*  - a transcript is a file written by the upstream tool: its lines are   *)
(*    JSON events and the first one carries the timestamp;                 *)
(*  - the log is the sequence of its non-blank lines, or NoFile.           *)
(***************************************************************************)
EXTENDS Integers, Sequences, FiniteSets, TLC

VARIABLES
    files,      \* the transcript files on disk: path -> content
    log,        \* history.jsonl: NoFile or FileOf(its lines)
    pinned,     \* ManagerState.pinned, most recently pinned first
    remarks,    \* ManagerState.remarks: session id -> non-empty remark
    lastOp,     \* the last call made on the manager, with what it returned
    stateFile,  \* state.json: missing, unparseable or a JSON document
    loaded,     \* StateStore.loaded
    defaults,   \* the array and the object DEFAULT_STATE refers to
    aliased,    \* whether state.pinned / state.remarks are those of DEFAULT_STATE
    tempFile,   \* history.jsonl.tmp: NoFile or FileOf(its lines)
    writing     \* the write to the log that is under way, if any

storeVars == <<stateFile, loaded, defaults, aliased>>
stepVars == <<tempFile, writing>>
vars == <<files, log, pinned, remarks, lastOp, storeVars, stepVars>>

(***************************************************************************)
(* Bounds of the model                                                     *)
(***************************************************************************)
MaxLog == 2         \* lines of the log before the first call
MaxBatch == 2       \* ids passed to one deleteSessions call
MaxQueryLog == 3    \* lines of the log in the query specification
MaxLimit == 1       \* largest limit option passed to listSummaries

(***************************************************************************)
(* Generic helpers                                                         *)
(***************************************************************************)
NoFile == [exists |-> FALSE, lines |-> <<>>]
FileOf(lines) == [exists |-> TRUE, lines |-> lines]
Undefined == <<"<undefined>">>
Null == [null |-> TRUE]

Range(s) == {s[i] : i \in 1..Len(s)}

Max(a, b) == IF a >= b THEN a ELSE b

Min(a, b) == IF a <= b THEN a ELSE b

\* The sequences that list every element of the set S exactly once.
Orders(S) ==
    {s \in [1..Cardinality(S) -> S] : \A i, j \in 1..Cardinality(S) : s[i] = s[j] => i = j}

\* The elements of s at the positions in `keep`, in their order in s.
RECURSIVE Selected(_, _)
Selected(s, keep) ==
    IF s = <<>> THEN <<>>
    ELSE LET init == Selected(SubSeq(s, 1, Len(s) - 1), keep)
         IN  IF Len(s) \in keep THEN Append(init, s[Len(s)]) ELSE init

\* All sequences over S of length at most n.
SeqsUpTo(S, n) == UNION {[1..k -> S] : k \in 0..n}

(***************************************************************************)
(* Strings                                                                 *)
(***************************************************************************)
\* String.prototype.includes
Includes(hay, needle) ==
    \E i \in 0..(Len(hay) - Len(needle)) :
        \A j \in 1..Len(needle) : hay[i + j] = needle[j]

\* String.prototype.startsWith
StartsWith(hay, needle) ==
    /\ Len(needle) <= Len(hay)
    /\ \A j \in 1..Len(needle) : hay[j] = needle[j]

\* The lower-case form of one character (the letters A-Z; others are unchanged).
LowerChar(c) ==
    CASE c = "A" -> "a" [] c = "B" -> "b" [] c = "C" -> "c" [] c = "D" -> "d"
      [] c = "E" -> "e" [] c = "F" -> "f" [] c = "G" -> "g" [] c = "H" -> "h"
      [] c = "I" -> "i" [] c = "J" -> "j" [] c = "K" -> "k" [] c = "L" -> "l"
      [] c = "M" -> "m" [] c = "N" -> "n" [] c = "O" -> "o" [] c = "P" -> "p"
      [] c = "Q" -> "q" [] c = "R" -> "r" [] c = "S" -> "s" [] c = "T" -> "t"
      [] c = "U" -> "u" [] c = "V" -> "v" [] c = "W" -> "w" [] c = "X" -> "x"
      [] c = "Y" -> "y" [] c = "Z" -> "z"
      [] OTHER -> c

\* String.prototype.toLowerCase
ToLowerCase(s) == [i \in 1..Len(s) |-> LowerChar(s[i])]

\* The characters matched by \s in the regular expressions of the program.
Whitespace == {" ", "LF", "CR", "TAB"}

\* String.prototype.trim
RECURSIVE TrimLeft(_)
TrimLeft(s) ==
    IF s # <<>> /\ Head(s) \in Whitespace THEN TrimLeft(Tail(s)) ELSE s

RECURSIVE TrimRight(_)
TrimRight(s) ==
    IF s # <<>> /\ s[Len(s)] \in Whitespace THEN TrimRight(SubSeq(s, 1, Len(s) - 1)) ELSE s

Trim(s) == TrimRight(TrimLeft(s))

\* s.replace(/[\r\n]+/g, ' ').replace(/\s+/g, ' '): every run of whitespace
\* becomes one space.
RECURSIVE CollapseWhitespace(_)
CollapseWhitespace(s) ==
    IF s = <<>> THEN <<>>
    ELSE IF Head(s) \in Whitespace
         THEN <<" ">> \o CollapseWhitespace(TrimLeft(s))
         ELSE <<Head(s)>> \o CollapseWhitespace(Tail(s))

\* s.split(/\s+/).filter(t => t.length > 0)
RECURSIVE SplitWhitespace(_)
SplitWhitespace(s) ==
    LET t == TrimLeft(s)
        n == IF \E i \in 1..Len(t) : t[i] \in Whitespace
             THEN (CHOOSE i \in 1..Len(t) :
                      /\ t[i] \in Whitespace
                      /\ \A j \in 1..(i - 1) : t[j] \notin Whitespace) - 1
             ELSE Len(t)
    IN  IF t = <<>> THEN <<>>
        ELSE <<SubSeq(t, 1, n)>> \o SplitWhitespace(SubSeq(t, n + 1, Len(t)))

Ellipsis == <<".", ".", ".">>

(***************************************************************************)
(* Text heuristics                                                         *)
(***************************************************************************)
AGENTS_MD == <<"a", "g", "e", "n", "t", "s", ".", "m", "d">>
SYSTEM_PROMPT_CN == <<"U7CFB", "U7EDF", "U63D0", "U793A", "U8BCD">>
FULLSTACK_EXPERT_CN ==
    <<"U4F60", "U662F", "U4E00", "U4E2A", "U8D44", "U6DF1", "U5168", "U6808",
      "U6280", "U672F", "U4E13", "U5BB6">>
INSTRUCTIONS_TAG == <<"<", "i", "n", "s", "t", "r", "u", "c", "t", "i", "o", "n", "s", ">">>
MCP_RULES_CN == <<"m", "c", "p", " ", "U8C03", "U7528", "U89C4", "U5219">>
IN_A_PROJECT == <<"y", "o", "u", " ", "a", "r", "e", " ", "i", "n", " ", "a", " ", "p", "r", "o", "j", "e", "c", "t">>
SYSTEM_COLON == <<"s", "y", "s", "t", "e", "m", ":">>
EMPTY_SESSION == <<"(", "U7A7A", "U4F1A", "U8BDD", ")">>
REQUEST_MARKER == <<"#", "#", " ", "M", "y", " ", "r", "e", "q", "u", "e", "s", "t", " ", "f", "o", "r", " ", "C", "o", "d", "e", "x", ":">>

isAgentsText(text) ==
    /\ text # <<>>
    /\ LET normalized == ToLowerCase(text)
       IN  \/ Includes(normalized, AGENTS_MD)
           \/ Includes(normalized, SYSTEM_PROMPT_CN)
           \/ Includes(normalized, FULLSTACK_EXPERT_CN)
           \/ StartsWith(normalized, INSTRUCTIONS_TAG)
           \/ Includes(normalized, MCP_RULES_CN)

isSystemPrompt(text) ==
    LET lower == ToLowerCase(text)
    IN  \/ Includes(lower, IN_A_PROJECT)
        \/ Includes(lower, AGENTS_MD)
        \/ Includes(lower, SYSTEM_COLON)

FirstTextLimit == 80
LastTextLimit == 200

cleanFirstText(rawText) ==
    IF rawText = <<>> THEN <<>>
    ELSE LET trimmed == Trim(CollapseWhitespace(rawText))
         IN  IF Len(trimmed) > FirstTextLimit
             THEN SubSeq(trimmed, 1, FirstTextLimit) \o Ellipsis
             ELSE trimmed

\* text.match(/##\s*My request for Codex:\s*(.+)$/s)[1].trim(): the trimmed text
\* after the first marker that is followed by at least one character, or
\* Undefined when there is none (the marker is modelled with single spaces).
requestOf(text) ==
    LET n == Len(REQUEST_MARKER)
        hits == {i \in 0..(Len(text) - n - 1) :
                    \A j \in 1..n : text[i + j] = REQUEST_MARKER[j]}
    IN  IF hits = {} THEN Undefined
        ELSE LET i == CHOOSE h \in hits : \A k \in hits : h <= k
             IN  Trim(SubSeq(text, i + n + 1, Len(text)))

(***************************************************************************)
(* Paths (core/paths.ts) and the path module                               *)
(***************************************************************************)
codexHome == <<"codex">>
managerHome == <<"manager">>
sessionsDir == codexHome \o <<"sessions">>
trashDir == managerHome \o <<"trash">>
\* path.join(path.dirname(sessionsDir), 'archived_sessions'), which is also
\* path.join(codexHome, 'archived_sessions').
archivedSessionsDir == SubSeq(sessionsDir, 1, Len(sessionsDir) - 1) \o <<"archived_sessions">>
trashSessionsDir == trashDir \o <<"sessions">>

IsPrefix(p, q) == Len(p) <= Len(q) /\ SubSeq(q, 1, Len(p)) = p

\* path.normalize on a sequence of components: ".." removes the component before it.
RECURSIVE Normalize(_)
Normalize(p) ==
    IF p = <<>> THEN <<>>
    ELSE LET init == Normalize(SubSeq(p, 1, Len(p) - 1))
             last == p[Len(p)]
         IN  IF last = ".." /\ init # <<>> /\ init[Len(init)] # ".."
             THEN SubSeq(init, 1, Len(init) - 1)
             ELSE Append(init, last)

\* path.join(a, b)
Join(a, b) == Normalize(a \o b)

\* path.relative(from, to) for directories: up from `from` to the common
\* ancestor, then down to `to`.
Relative(from, to) ==
    LET common == CHOOSE k \in 0..Min(Len(from), Len(to)) :
                      /\ SubSeq(from, 1, k) = SubSeq(to, 1, k)
                      /\ \A m \in (k + 1)..Min(Len(from), Len(to)) :
                            SubSeq(from, 1, m) # SubSeq(to, 1, m)
    IN  [i \in 1..(Len(from) - common) |-> ".."] \o SubSeq(to, common + 1, Len(to))

\* file.includes('archived_sessions') on the path of a file
InArchivedPath(file) == \E i \in 1..Len(file.dir) : file.dir[i] = "archived_sessions"

\* The file of name `name` in directory `dir`.
FileAt(dir, name) == [dir |-> dir, name |-> name]

\* fg('**/*.jsonl', {cwd: base}): the files under base, as a set (fast-glob
\* returns them in no guaranteed order).
Glob(fs, base) == {f \in DOMAIN fs : IsPrefix(base, f.dir)}

\* A move that leaves the source in place.
CopyOnly(fs, src, dest) ==
    [f \in DOMAIN fs \cup {dest} |-> IF f = dest THEN fs[src] ELSE fs[f]]

\* fs.move(src, dest, {overwrite: true}) on the file system fs
Move(fs, src, dest) ==
    [f \in (DOMAIN fs \ {src}) \cup {dest} |-> IF f = dest THEN fs[src] ELSE fs[f]]

(***************************************************************************)
(* Transcript files                                                        *)
(***************************************************************************)
\* A file name: rollout-<date>T<time>-<uuid>.jsonl when `rollout`, else
\* <uuid>.jsonl. The uuids of the model are of one length, so that one is a
\* suffix or a substring of a file name only if it is that name's uuid.
RolloutName(date, uuid) == [rollout |-> TRUE, date |-> date, uuid |-> uuid]
PlainName(uuid) == [rollout |-> FALSE, date |-> <<>>, uuid |-> uuid]

\* The JSON lines of a transcript.
SessionMeta(ts, id) ==
    [type |-> "session_meta", sub |-> "", timestamp |-> ts, id |-> id, text |-> <<>>]
Event(type, sub, text) ==
    [type |-> type, sub |-> sub, timestamp |-> 0, id |-> "", text |-> text]

T_fix == <<"F", "i", "x", " ", "b", "u", "g">>
T_hi == <<"h", "i">>
T_agents == <<"s", "e", "e", " ", "A", "G", "E", "N", "T", "S", ".", "m", "d">>
T_cn == <<"x">> \o SYSTEM_PROMPT_CN

\* The sessions that have a transcript on disk, and the file name and content
\* of each transcript (b, a transcript of boilerplate only, and 7-d, a
\* transcript of the older format whose first line carries the id, are on
\* disk in the specifications that name them). The uuid "7-d" stands for a
\* uuid whose first group holds digits only, as 01990000-c3d4-... does.
SessionIds == {"a", "c"}

NameOf(id) ==
    CASE id = "a" -> RolloutName(<<"2025", "11", "10">>, "a")
      [] id = "b" -> RolloutName(<<"2025", "11", "11">>, "b")
      [] id = "c" -> PlainName("c")
      [] id = "7-d" -> RolloutName(<<"2025", "11", "12">>, "7-d")

ContentOf(id) ==
    CASE id = "a" -> <<SessionMeta(3, ""),
                       Event("event_msg", "user_message", REQUEST_MARKER \o <<" ">> \o T_fix),
                       Event("response_item", "user", T_fix),
                       Event("response_item", "assistant", T_hi)>>
      [] id = "b" -> <<SessionMeta(2, "b"),
                       Event("event_msg", "user_message", T_agents),
                       Event("response_item", "user", T_agents)>>
      [] id = "c" -> <<SessionMeta(1, ""),
                       Event("user_item", "", T_hi)>>
      [] id = "7-d" -> <<SessionMeta(6, "7-d"),
                         Event("event_msg", "user_message", T_hi)>>

\* Ids that calls are made with: the sessions and one id that has no transcript.
Ids == SessionIds \cup {"g"}

\* What the pattern rollout-[\d-T]+- leaves of the name rollout-<date>T<time>-
\* <uuid>: the class [\d-T] holds the digits, "-" and "T", and the match is
\* greedy, so it runs through the date, the time and every leading group of
\* the uuid that holds digits only.
afterRolloutPrefix(uuid) == IF uuid = "7-d" THEN "d" ELSE uuid

\* path.basename(file).replace(/^rollout-[\d-T]+-/, '').replace(/\.jsonl$/, '')
idOfBasename(name) == IF name.rollout THEN afterRolloutPrefix(name.uuid) ELSE name.uuid

\* filename.match(/rollout-[\d-T]+-([a-f0-9-]+)\.jsonl/i): match[1], or Null.
matchRollout(name) == IF name.rollout THEN afterRolloutPrefix(name.uuid) ELSE Null

\* One step of the loop of parseSessionFile over the lines of the file.
parseStep(acc, parsed) ==
    LET afterMessage ==
            IF parsed.type = "event_msg" /\ parsed.sub = "user_message"
            THEN LET match == requestOf(parsed.text)
                     extractedText == IF match # Undefined THEN match ELSE Trim(parsed.text)
                 IN  IF ~isSystemPrompt(extractedText)
                     THEN [acc EXCEPT !.firstText = IF acc.firstText = <<>> THEN extractedText ELSE @,
                                      !.turnCount = @ + 1]
                     ELSE acc
            ELSE acc
    IN  IF parsed.type = "user_item"
        THEN IF parsed.text # <<>> /\ ~isSystemPrompt(parsed.text)
             THEN [afterMessage EXCEPT
                     !.firstText = IF afterMessage.firstText = <<>> THEN parsed.text ELSE @,
                     !.lastText = parsed.text,
                     !.turnCount = @ + 1]
             ELSE afterMessage
        ELSE IF parsed.type = "response_item" /\ parsed.sub = "user"
        THEN IF parsed.text # <<>>
             THEN IF isSystemPrompt(parsed.text) THEN afterMessage
                  ELSE LET match == requestOf(parsed.text)
                       IN  [afterMessage EXCEPT
                              !.firstText = IF match # Undefined /\ afterMessage.firstText = <<>>
                                            THEN match ELSE @,
                              !.turnCount = @ + 1]
             ELSE afterMessage
        ELSE afterMessage

RECURSIVE parseLoop(_, _)
parseLoop(acc, lines) ==
    IF lines = <<>> THEN acc ELSE parseLoop(parseStep(acc, Head(lines)), Tail(lines))

\* parseSessionFile(file): the log line of the transcript at path `file` with
\* content `content`, or Null.
parseSessionFile(file, content) ==
    IF content = <<>> THEN Null
    ELSE LET firstLine == content[1]
             timestamp == firstLine.timestamp
         IN  IF timestamp = 0 THEN Null
             ELSE LET sessionId == IF firstLine.id # "" THEN firstLine.id
                                   ELSE idOfBasename(file.name)
                      acc == parseLoop([turnCount |-> 0, firstText |-> <<>>, lastText |-> <<>>],
                                       content)
                      cleanedFirstText ==
                          cleanFirstText(IF acc.firstText # <<>> THEN acc.firstText
                                         ELSE EMPTY_SESSION)
                  IN  [json |-> TRUE,
                       session_id |-> sessionId,
                       ts |-> timestamp,
                       text |-> Undefined,
                       first_text |-> cleanedFirstText,
                       last_text |-> IF acc.lastText # <<>> THEN acc.lastText
                                     ELSE cleanedFirstText,
                       turn_count |-> acc.turnCount,
                       is_archived |-> InArchivedPath(file)]

(***************************************************************************)
(* The log (history.jsonl)                                                 *)
(***************************************************************************)
\* A line the upstream tool appends: {session_id, ts, text}.
TextLine(id, ts, text) ==
    [json |-> TRUE, session_id |-> id, ts |-> ts, text |-> text,
     first_text |-> Undefined, last_text |-> Undefined,
     turn_count |-> 0, is_archived |-> FALSE]

\* A line written by an earlier index run: turn_count 0 stands for a missing
\* or zero turn_count, is_archived FALSE for a missing or false flag.
IndexLine(id, ts, first, last, turns, archived) ==
    [json |-> TRUE, session_id |-> id, ts |-> ts, text |-> Undefined,
     first_text |-> first, last_text |-> last,
     turn_count |-> turns, is_archived |-> archived]

\* A non-blank line that JSON.parse rejects, of `size` bytes.
MalformedLine(raw, size) == [json |-> FALSE, raw |-> raw, size |-> size]

Lines(file) == file.lines

\* a || b on optional strings
Truthy(t) == t # Undefined /\ t # <<>>
OrElse(a, b) == IF Truthy(a) THEN a ELSE b

\* The condition under which readHistoryLines keeps a parsed line.
acceptsLine(obj, hideAgents) ==
    /\ obj.json
    /\ obj.session_id # ""
    /\ obj.ts # 0
    /\ (obj.text # Undefined \/ obj.first_text # Undefined \/ obj.last_text # Undefined)
    /\ LET checkText == OrElse(obj.text, OrElse(obj.last_text, OrElse(obj.first_text, <<>>)))
       IN  ~(hideAgents /\ isAgentsText(checkText))

readHistoryLines(file, hideAgents) ==
    SelectSeq(Lines(file), LAMBDA obj : acceptsLine(obj, hideAgents))

\* The loop of rewriteHistoryExcluding: the lines written to the temp file and
\* the number of lines left out.
RECURSIVE rewriteLoop(_, _, _)
rewriteLoop(lines, sessionIds, acc) ==
    IF lines = <<>> THEN acc
    ELSE LET line == Head(lines)
             next == IF ~line.json
                     THEN [acc EXCEPT !.output = Append(@, line)]
                     ELSE IF line.session_id \in sessionIds
                     THEN [acc EXCEPT !.removed = @ + 1]
                     ELSE [acc EXCEPT !.output = Append(@, line)]
         IN  rewriteLoop(Tail(lines), sessionIds, next)

\* A rewrite that also leaves out the lines it cannot parse.
rewriteDroppingMalformed(file, sessionIds) ==
    IF ~file.exists
    THEN [log |-> file, removed |-> 0]
    ELSE LET parsed == SelectSeq(Lines(file), LAMBDA line : line.json)
             done == rewriteLoop(parsed, sessionIds, [output |-> <<>>, removed |-> 0])
         IN  [log |-> FileOf(done.output), removed |-> done.removed]

\* A rewrite that writes the lines it cannot parse after the others.
rewriteMalformedLast(file, sessionIds) ==
    IF ~file.exists
    THEN [log |-> file, removed |-> 0]
    ELSE LET parsed == SelectSeq(file.lines, LAMBDA line : line.json)
             kept == SelectSeq(parsed, LAMBDA line : line.session_id \notin sessionIds)
             malformed == SelectSeq(file.lines, LAMBDA line : ~line.json)
         IN  [log |-> [exists |-> TRUE, lines |-> kept \o malformed],
              removed |-> Len(parsed) - Len(kept)]

\* rewriteHistoryExcluding(sessionIds, backupHistory) on the log `file`: the
\* new log and the number returned. (The copy to history.jsonl.bak is left
\* out: no operation reads that file.)
rewriteHistoryExcluding(file, sessionIds) ==
    IF ~file.exists
    THEN [log |-> file, removed |-> 0]
    ELSE LET done == rewriteLoop(Lines(file), sessionIds, [output |-> <<>>, removed |-> 0])
         IN  [log |-> FileOf(done.output), removed |-> done.removed]

\* No sort: the records stay in the order of the scan.
scanOrder(lines) == lines

\* Array.prototype.sort with the comparator (a, b) => b.ts - a.ts: a stable
\* sort, an element is placed after the elements that do not come after it.
sortByTsDescending(lines) ==
    LET insert(sorted, x) ==
            LET k == Cardinality({i \in 1..Len(sorted) : x.ts - sorted[i].ts <= 0})
            IN  SubSeq(sorted, 1, k) \o <<x>> \o SubSeq(sorted, k + 1, Len(sorted))
        upTo[n \in 0..Len(lines)] ==
            IF n = 0 THEN <<>> ELSE insert(upTo[n - 1], lines[n])
    IN  upTo[Len(lines)]

(***************************************************************************)
(* History query engine                                                    *)
(***************************************************************************)
\* The options of one listSummaries call; search <<>> and limit 0 stand for
\* options that are not given.
Options(search, limit, onlyPinned, hideAgents) ==
    [search |-> search, limit |-> limit, onlyPinned |-> onlyPinned, hideAgents |-> hideAgents]

truncatedText(text) ==
    IF Len(text) > LastTextLimit THEN SubSeq(text, 1, LastTextLimit) \o Ellipsis ELSE text

\* A filter that lets a line through when it holds one of the terms.
matchesAnyTerm(line, searchTerms) ==
    LET text == OrElse(line.text, OrElse(line.last_text, <<>>))
        content == ToLowerCase(text \o <<" ">> \o OrElse(line.first_text, <<>>))
    IN  searchTerms = <<>> \/ \E i \in 1..Len(searchTerms) : Includes(content, searchTerms[i])

\* Whether the search terms let the line through.
matchesSearch(line, searchTerms) ==
    LET text == OrElse(line.text, OrElse(line.last_text, <<>>))
        content == ToLowerCase(text \o <<" ">> \o OrElse(line.first_text, <<>>))
    IN  \A i \in 1..Len(searchTerms) : Includes(content, searchTerms[i])

\* The position of the summary of session id in the sequence, 0 when absent
\* (the Map `summaries`, in insertion order).
IndexOfSession(summaries, id) ==
    IF \E i \in 1..Len(summaries) : summaries[i].sessionId = id
    THEN CHOOSE i \in 1..Len(summaries) : summaries[i].sessionId = id
    ELSE 0

\* An iteration that starts a new summary for every line.
appendLine(summaries, line, searchTerms, pinnedSet, remarkOf) ==
    LET text == OrElse(line.text, OrElse(line.last_text, <<>>))
    IN  IF searchTerms # <<>> /\ ~matchesSearch(line, searchTerms) THEN summaries
        ELSE Append(summaries,
                    [sessionId |-> line.session_id,
                     firstTs |-> line.ts,
                     lastTs |-> line.ts,
                     firstText |-> cleanFirstText(OrElse(line.first_text, truncatedText(text))),
                     lastText |-> OrElse(line.last_text, truncatedText(text)),
                     count |-> IF line.turn_count # 0 THEN line.turn_count ELSE 1,
                     pinned |-> line.session_id \in pinnedSet,
                     remark |-> Undefined,
                     isArchived |-> line.is_archived])

\* One iteration of the loop of listSummaries over the lines read.
mergeLine(summaries, line, searchTerms, pinnedSet, remarkOf) ==
    LET text == OrElse(line.text, OrElse(line.last_text, <<>>))
        truncated == truncatedText(text)
        i == IndexOfSession(summaries, line.session_id)
        remark == IF line.session_id \in DOMAIN remarkOf
                  THEN remarkOf[line.session_id] ELSE Undefined
    IN  IF searchTerms # <<>> /\ ~matchesSearch(line, searchTerms) THEN summaries
        ELSE IF i = 0
        THEN Append(summaries,
                    [sessionId |-> line.session_id,
                     firstTs |-> line.ts,
                     lastTs |-> line.ts,
                     firstText |-> cleanFirstText(OrElse(line.first_text, truncated)),
                     lastText |-> OrElse(line.last_text, truncated),
                     count |-> IF line.turn_count # 0 THEN line.turn_count ELSE 1,
                     pinned |-> line.session_id \in pinnedSet,
                     remark |-> IF Truthy(remark) THEN remark ELSE Undefined,
                     isArchived |-> line.is_archived])
        ELSE LET existing == summaries[i]
                 lastTs == Max(existing.lastTs, line.ts)
             IN  [summaries EXCEPT ![i] =
                    [existing EXCEPT
                       !.lastTs = lastTs,
                       !.firstTs = Min(existing.firstTs, line.ts),
                       !.lastText = IF line.ts >= lastTs
                                    THEN OrElse(line.last_text, truncated) ELSE @,
                       !.firstText = IF Truthy(line.first_text)
                                        /\ (existing.firstText = <<>>
                                            \/ existing.firstText = EMPTY_SESSION)
                                     THEN cleanFirstText(line.first_text) ELSE @,
                       !.count = @ + 1,
                       !.remark = IF ~Truthy(existing.remark) /\ Truthy(remark)
                                  THEN remark ELSE @,
                       !.isArchived = IF line.is_archived THEN TRUE ELSE @]]

\* A comparator that orders by latest timestamp only.
compareByLastTs(a, b) == b.lastTs - a.lastTs

\* result.sort((a, b) => a.pinned !== b.pinned ? (a.pinned ? -1 : 1) : b.lastTs - a.lastTs)
compareSummaries(a, b) ==
    IF a.pinned # b.pinned THEN (IF a.pinned THEN 0 - 1 ELSE 1) ELSE b.lastTs - a.lastTs

\* Array.prototype.sort with compareSummaries (stable).
sortSummaries(result) ==
    LET insert(sorted, x) ==
            LET k == Cardinality({i \in 1..Len(sorted) : compareSummaries(sorted[i], x) <= 0})
            IN  SubSeq(sorted, 1, k) \o <<x>> \o SubSeq(sorted, k + 1, Len(sorted))
        upTo[n \in 0..Len(result)] ==
            IF n = 0 THEN <<>> ELSE insert(upTo[n - 1], result[n])
    IN  upTo[Len(result)]

\* listSummaries(options) on the log `file` with the state (pinnedList, remarkOf)
listSummaries(file, pinnedList, remarkOf, options) ==
    LET lines == readHistoryLines(file, options.hideAgents)
        pinnedSet == Range(pinnedList)
        searchTerms == SplitWhitespace(ToLowerCase(options.search))
        merged[n \in 0..Len(lines)] ==
            IF n = 0 THEN <<>>
            ELSE mergeLine(merged[n - 1], lines[n], searchTerms, pinnedSet, remarkOf)
        all == merged[Len(lines)]
        filtered == IF options.onlyPinned THEN SelectSeq(all, LAMBDA item : item.pinned) ELSE all
        sorted == sortSummaries(filtered)
    IN  IF options.limit > 0 THEN SubSeq(sorted, 1, Min(options.limit, Len(sorted))) ELSE sorted

(***************************************************************************)
(* Session indexer and mutation engine                                     *)
(***************************************************************************)
\* searchInDirectory(baseDir): the files fg(`**/*${sessionId}.jsonl`) matches.
searchInDirectory(fs, baseDir, sessionId) ==
    {f \in Glob(fs, baseDir) : f.name.uuid = sessionId}

\* findSessionFile(sessionId): the first match in the sessions directory, else
\* in archived_sessions, else Null (a file found in the trash only raises a
\* warning and Null is returned).
findSessionFile(fs, sessionId) ==
    LET inSessions == searchInDirectory(fs, sessionsDir, sessionId)
        inArchived == searchInDirectory(fs, archivedSessionsDir, sessionId)
    IN  IF inSessions # {} THEN CHOOSE f \in inSessions : TRUE
        ELSE IF inArchived # {} THEN CHOOSE f \in inArchived : TRUE
        ELSE Null

\* The orders in which a scan of the sessions directory and then of
\* archived_sessions can list the files in `wanted`, each with the
\* record parseSessionFile gives for it.
ScanOrders(fs, wanted) ==
    LET parsed(dir) == {[file |-> f, sessionData |-> parseSessionFile(f, fs[f])] :
                           f \in Glob(fs, dir) \cap wanted}
    IN  {active \o archived : active \in Orders(parsed(sessionsDir)),
                              archived \in Orders(parsed(archivedSessionsDir))}

\* The records pushed for the files of `scan`, in that order.
parseAll(scan) ==
    LET kept == SelectSeq(scan, LAMBDA entry : entry.sessionData # Null)
    IN  [i \in 1..Len(kept) |-> kept[i].sessionData]

\* A rebuild that indexes the files of the active tree only.
rebuildActiveOnly(scan) ==
    FileOf(sortByTsDescending(
        parseAll(SelectSeq(scan, LAMBDA entry : ~InArchivedPath(entry.file)))))

\* rebuildIndex() when the scan lists the files as `scan`: the new log. (The
\* copy of the old log to history.jsonl.bak is left out: no operation reads
\* that file.)
rebuildIndex(scan) ==
    FileOf(sortByTsDescending(parseAll(scan)))

\* new Set(sessionIds), in insertion order
RECURSIVE Distinct(_)
Distinct(ids) ==
    IF ids = <<>> THEN <<>>
    ELSE LET init == Distinct(SubSeq(ids, 1, Len(ids) - 1))
         IN  IF ids[Len(ids)] \in Range(init) THEN init ELSE Append(init, ids[Len(ids)])

\* A destination that drops the directories below the sessions directory.
trashFlat(file) ==
    FileAt(trashSessionsDir, file.name)

\* Where deleteSessions moves `file`: path.join(trashDir, 'sessions',
\* path.relative(sessionsDir, file)).
trashDestination(file) ==
    FileAt(Join(trashSessionsDir, Relative(sessionsDir, file.dir)), file.name)

\* A loop that stops at the first id that has no file to move.
RECURSIVE moveUntilMissing(_, _)
moveUntilMissing(idSet, acc) ==
    IF idSet = <<>> THEN acc
    ELSE LET sessionId == Head(idSet)
             file == findSessionFile(acc.files, sessionId)
         IN  IF file = Null
             THEN [acc EXCEPT !.notFoundFiles = Append(@, sessionId)]
             ELSE moveUntilMissing(Tail(idSet),
                      [acc EXCEPT !.files = Move(@, file, trashDestination(file)),
                                  !.removedFiles = Append(@, file)])

\* Step 1 of deleteSessions: the loop that moves the files to the trash.
RECURSIVE moveToTrash(_, _)
moveToTrash(idSet, acc) ==
    IF idSet = <<>> THEN acc
    ELSE LET sessionId == Head(idSet)
             file == findSessionFile(acc.files, sessionId)
             next == IF file = Null
                     THEN [acc EXCEPT !.notFoundFiles = Append(@, sessionId)]
                     ELSE [acc EXCEPT !.files = Move(@, file, trashDestination(file)),
                                      !.removedFiles = Append(@, file)]
         IN  moveToTrash(Tail(idSet), next)

\* A destination that stays in the archived tree.
archivedDir(name) == archivedSessionsDir

\* The active-tree directory a file name is restored or unarchived to:
\* sessions/YYYY/MM/DD when the name carries a date, else the sessions directory.
datedSessionsDir(name) ==
    IF name.rollout THEN sessionsDir \o name.date ELSE sessionsDir

\* The bytes of a log in which no line is readable (every line is malformed).
RECURSIVE unreadableSize(_)
unreadableSize(lines) ==
    IF lines = <<>> THEN 0 ELSE Head(lines).size + 1 + unreadableSize(Tail(lines))

MinSuspectSize == 100

(***************************************************************************)
(* State store (core/state.ts)                                             *)
(***************************************************************************)
NoRemarks == [id \in {} |-> <<>>]

\* const DEFAULT_STATE = { pinned: [], remarks: {} }
DEFAULT_STATE == [pinned |-> <<>>, remarks |-> NoRemarks]

\* state.json: absent, a file JSON.parse fails on (or whose value has no
\* properties to read), or a JSON object. A property of the object is
\* Given(items), or NotGiven when it is absent or of another type.
NotGiven == [given |-> FALSE, items |-> <<>>]
Given(items) == [given |-> TRUE, items |-> items]

MissingState == [kind |-> "missing"]
CorruptState == [kind |-> "corrupt"]
JsonState(pinnedValue, remarksValue) ==
    [kind |-> "json", pinned |-> pinnedValue, remarks |-> remarksValue]

\* The order in which the keys of a remarks object are written.
KeyOrder(keys) == CHOOSE order \in Orders(keys) : TRUE

\* JSON.stringify(this.state, null, 2): the pinned array and the remarks as
\* "key": "value" members.
stringify(state) ==
    LET keys == KeyOrder(DOMAIN state.remarks)
    IN  JsonState(Given(state.pinned),
                  Given([i \in 1..Len(keys) |->
                            [key |-> keys[i], value |-> state.remarks[keys[i]]]]))

\* The state load() builds from JSON.parse(raw).
parseState(parsed) ==
    LET members == parsed.remarks.items
    IN  [pinned |-> IF parsed.pinned.given THEN parsed.pinned.items ELSE <<>>,
         remarks |-> IF parsed.remarks.given
                     THEN [id \in {members[i].key : i \in 1..Len(members)} |->
                              LET i == CHOOSE k \in 1..Len(members) :
                                          /\ members[k].key = id
                                          /\ \A later \in (k + 1)..Len(members) :
                                                members[later].key # id
                              IN  members[i].value]
                     ELSE NoRemarks]

\* One StateStore and what it shares with the module: store.state is
\* (pinned, remarks); store.aliased tells which of the two are the very
\* array and object of DEFAULT_STATE ({ ...DEFAULT_STATE } copies the two
\* references); store.defaults is what DEFAULT_STATE holds by now.
Store(pinnedList, remarkOf, file, isLoaded, defaultState, alias) ==
    [pinned |-> pinnedList, remarks |-> remarkOf, stateFile |-> file,
     loaded |-> isLoaded, defaults |-> defaultState, aliased |-> alias]

Shared == [pinned |-> TRUE, remarks |-> TRUE]
Fresh == [pinned |-> FALSE, remarks |-> FALSE]

\* new StateStore(paths): state = { ...DEFAULT_STATE }, loaded = false
newStateStore(file, defaultState) ==
    Store(defaultState.pinned, defaultState.remarks, file, FALSE, defaultState, Shared)

\* A persist that writes the pinned list and leaves the remarks out.
persistPinnedOnly(store) ==
    [store EXCEPT !.stateFile = stringify([pinned |-> store.pinned, remarks |-> NoRemarks])]

\* persist(): writeFile(stateFile, JSON.stringify(this.state))
persist(store) ==
    [store EXCEPT !.stateFile = stringify([pinned |-> store.pinned, remarks |-> store.remarks])]

\* A load that writes the state file on every call.
loadAndPersist(store) ==
    IF store.loaded THEN persist(store)
    ELSE IF store.stateFile.kind = "json"
         THEN LET parsed == parseState(store.stateFile)
              IN  [store EXCEPT !.pinned = parsed.pinned,
                                !.remarks = parsed.remarks,
                                !.aliased = Fresh,
                                !.loaded = TRUE]
    ELSE persist([store EXCEPT !.pinned = store.defaults.pinned,
                               !.remarks = store.defaults.remarks,
                               !.aliased = Shared,
                               !.loaded = TRUE])

\* load()
load(store) ==
    IF store.loaded THEN store
    ELSE IF store.stateFile.kind = "missing"
         THEN [persist(store) EXCEPT !.loaded = TRUE]
    ELSE IF store.stateFile.kind = "corrupt"
         THEN [store EXCEPT !.pinned = store.defaults.pinned,
                            !.remarks = store.defaults.remarks,
                            !.aliased = Shared,
                            !.loaded = TRUE]
    ELSE LET parsed == parseState(store.stateFile)
         IN  [store EXCEPT !.pinned = parsed.pinned,
                           !.remarks = parsed.remarks,
                           !.aliased = Fresh,
                           !.loaded = TRUE]

\* createManager(): new StateStore(paths), state.load(), and the manager is
\* made on the loaded store. `file` is the state file found and
\* defaultState what DEFAULT_STATE holds in the process.
createManager(file, defaultState) == load(newStateStore(file, defaultState))

\* pin(sessionId): unshift changes the array in place
pin(store, sessionId) ==
    LET s == load(store)
    IN  IF sessionId \in Range(s.pinned) THEN s
        ELSE LET next == <<sessionId>> \o s.pinned
             IN  persist([s EXCEPT !.pinned = next,
                                   !.defaults.pinned = IF s.aliased.pinned THEN next ELSE @])

\* unpin(sessionId): filter makes a new array
unpin(store, sessionId) ==
    LET s == load(store)
        next == SelectSeq(s.pinned, LAMBDA id : id # sessionId)
    IN  IF Len(next) = Len(s.pinned) THEN s
        ELSE persist([s EXCEPT !.pinned = next, !.aliased.pinned = FALSE])

\* setRemark(sessionId, remark): the object is changed in place
setRemark(store, sessionId, remark) ==
    LET s == load(store)
        next == Trim(remark)
        current == IF sessionId \in DOMAIN s.remarks THEN s.remarks[sessionId] ELSE Undefined
        changed == IF next # <<>>
                   THEN [id \in DOMAIN s.remarks \cup {sessionId} |->
                            IF id = sessionId THEN next ELSE s.remarks[id]]
                   ELSE [id \in DOMAIN s.remarks \ {sessionId} |-> s.remarks[id]]
    IN  IF current = next THEN s
        ELSE persist([s EXCEPT !.remarks = changed,
                               !.defaults.remarks = IF s.aliased.remarks THEN changed ELSE @])

\* getRemark(sessionId): this.state.remarks[sessionId] ?? ''
getRemark(store, sessionId) ==
    IF sessionId \in DOMAIN store.remarks THEN store.remarks[sessionId] ELSE <<>>

\* The store the manager holds, and the assignment of a store to the variables.
TheStore == Store(pinned, remarks, stateFile, loaded, defaults, aliased)

BecomesStore(store) ==
    /\ pinned' = store.pinned
    /\ remarks' = store.remarks
    /\ stateFile' = store.stateFile
    /\ loaded' = store.loaded
    /\ defaults' = store.defaults
    /\ aliased' = store.aliased

IsStore(store) ==
    /\ pinned = store.pinned
    /\ remarks = store.remarks
    /\ stateFile = store.stateFile
    /\ loaded = store.loaded
    /\ defaults = store.defaults
    /\ aliased = store.aliased

\* No write to the log is under way.
Idle == [op |-> "none"]

InitSteps ==
    /\ tempFile = NoFile
    /\ writing = Idle

\* Initial states: every session has one transcript, in the directory of the
\* active tree the upstream tool wrote it to, in the archived tree or in the
\* trash; the log holds lines of the upstream tool, of earlier index runs and
\* malformed ones.
WrittenTo(id) ==
    IF NameOf(id).rollout THEN sessionsDir \o NameOf(id).date ELSE sessionsDir

InitialDirs(id) ==
    {WrittenTo(id), archivedSessionsDir, trashSessionsDir \o NameOf(id).date}

InitialLines ==
    <<IndexLine("c", 2, T_hi, T_cn, 3, TRUE),
      TextLine("a", 1, T_hi),
      MalformedLine("x", 60),
      TextLine("a", 5, T_agents),
      TextLine("g", 4, T_fix)>>

\* The logs made of at most MaxLog of the initial lines, in their order.
InitialLogs ==
    {FileOf(Selected(InitialLines, keep)) :
        keep \in {k \in SUBSET (1..Len(InitialLines)) : Cardinality(k) <= MaxLog}}

\* The file system in which session i is in directory where[i].
FilesAt(where) ==
    [f \in {FileAt(where[i], NameOf(i)) : i \in SessionIds} |-> ContentOf(f.name.uuid)]

InitialFiles ==
    {FilesAt(where) :
        where \in {w \in [SessionIds -> UNION {InitialDirs(i) : i \in SessionIds}] :
                      \A i \in SessionIds : w[i] \in InitialDirs(i)}}

Init ==
    /\ files \in InitialFiles
    /\ log \in {NoFile} \cup InitialLogs
    /\ IsStore(createManager(MissingState, DEFAULT_STATE))
    /\ InitSteps
    /\ lastOp = [op |-> "init"]

(***************************************************************************)
(* The calls                                                               *)
(***************************************************************************)
Failed(op, sessionId) == [op |-> op, id |-> sessionId, ok |-> FALSE]
Succeeded(op, sessionId) == [op |-> op, id |-> sessionId, ok |-> TRUE]

\* A deleteSessions that also unpins the sessions it deletes.
DeleteAndUnpin(sessionIds) ==
    LET moved == moveToTrash(Distinct(sessionIds),
                             [files |-> files, removedFiles |-> <<>>, notFoundFiles |-> <<>>])
        rewritten == rewriteHistoryExcluding(log, Range(sessionIds))
    IN  /\ files' = moved.files
        /\ log' = rewritten.log
        /\ BecomesStore(unpin(TheStore, sessionIds[1]))
        /\ lastOp' = [op |-> "deleteSessions", ids |-> sessionIds, ok |-> TRUE,
                      removedHistory |-> rewritten.removed,
                      removedFiles |-> moved.removedFiles,
                      notFoundFiles |-> moved.notFoundFiles]
        /\ UNCHANGED stepVars

\* deleteSessions(sessionIds, options); options.backupHistory only decides
\* whether history.jsonl.bak is written.
DeleteSessions(sessionIds) ==
    LET moved == moveToTrash(Distinct(sessionIds),
                             [files |-> files, removedFiles |-> <<>>, notFoundFiles |-> <<>>])
        rewritten == rewriteHistoryExcluding(log, Range(sessionIds))
    IN  /\ files' = moved.files
        /\ log' = rewritten.log
        /\ lastOp' = [op |-> "deleteSessions", ids |-> sessionIds, ok |-> TRUE,
                      removedHistory |-> rewritten.removed,
                      removedFiles |-> moved.removedFiles,
                      notFoundFiles |-> moved.notFoundFiles]
        /\ UNCHANGED <<pinned, remarks, storeVars, stepVars>>

\* An archiveSession without the check for an archived file.
ArchiveUnchecked(sessionId) ==
    LET file == findSessionFile(files, sessionId)
    IN  IF file = Null
        THEN /\ lastOp' = Failed("archiveSession", sessionId)
             /\ UNCHANGED <<files, log, pinned, remarks, storeVars, stepVars>>
        ELSE LET moved == Move(files, file, FileAt(archivedSessionsDir, file.name))
             IN  \E scan \in ScanOrders(moved, DOMAIN moved) :
                    /\ files' = moved
                    /\ log' = rebuildIndex(scan)
                    /\ lastOp' = Succeeded("archiveSession", sessionId)
                    /\ UNCHANGED <<pinned, remarks, storeVars, stepVars>>

\* archiveSession(sessionId)
ArchiveSession(sessionId) ==
    LET file == findSessionFile(files, sessionId)
    IN  IF file = Null \/ InArchivedPath(file)
        THEN /\ lastOp' = Failed("archiveSession", sessionId)
             /\ UNCHANGED <<files, log, pinned, remarks, storeVars, stepVars>>
        ELSE LET moved == Move(files, file, FileAt(archivedSessionsDir, file.name))
             IN  \E scan \in ScanOrders(moved, DOMAIN moved) :
                    /\ files' = moved
                    /\ log' = rebuildIndex(scan)
                    /\ lastOp' = Succeeded("archiveSession", sessionId)
                    /\ UNCHANGED <<pinned, remarks, storeVars, stepVars>>

\* unarchiveSession(sessionId)
UnarchiveSession(sessionId) ==
    LET file == findSessionFile(files, sessionId)
    IN  IF file = Null \/ ~InArchivedPath(file)
        THEN /\ lastOp' = Failed("unarchiveSession", sessionId)
             /\ UNCHANGED <<files, log, pinned, remarks, storeVars, stepVars>>
        ELSE LET moved == Move(files, file, FileAt(datedSessionsDir(file.name), file.name))
             IN  \E scan \in ScanOrders(moved, DOMAIN moved) :
                    /\ files' = moved
                    /\ log' = rebuildIndex(scan)
                    /\ lastOp' = Succeeded("unarchiveSession", sessionId)
                    /\ UNCHANGED <<pinned, remarks, storeVars, stepVars>>

\* A restore that rebuilds the whole index instead of appending to it.
RestoreAndRebuild(sessionId) ==
    LET found == {f \in Glob(files, trashDir) : f.name.uuid = sessionId}
    IN  IF found = {}
        THEN /\ lastOp' = Failed("restoreFromRecycleBin", sessionId)
             /\ UNCHANGED <<files, log, pinned, remarks, storeVars, stepVars>>
        ELSE \E sourceFile \in found :
                LET targetFile == FileAt(datedSessionsDir(sourceFile.name), sourceFile.name)
                    moved == Move(files, sourceFile, targetFile)
                IN  \E scan \in ScanOrders(moved, DOMAIN moved) :
                        /\ files' = moved
                        /\ log' = rebuildIndex(scan)
                        /\ lastOp' = Succeeded("restoreFromRecycleBin", sessionId)
                        /\ UNCHANGED <<pinned, remarks, storeVars, stepVars>>

\* restoreFromRecycleBin(sessionId)
RestoreFromRecycleBin(sessionId) ==
    LET found == {f \in Glob(files, trashDir) : f.name.uuid = sessionId}
    IN  IF found = {}
        THEN /\ lastOp' = Failed("restoreFromRecycleBin", sessionId)
             /\ UNCHANGED <<files, log, pinned, remarks, storeVars, stepVars>>
        ELSE \E sourceFile \in found :
                LET targetFile == FileAt(datedSessionsDir(sourceFile.name), sourceFile.name)
                IN  IF targetFile \in DOMAIN files
                    THEN /\ lastOp' = Failed("restoreFromRecycleBin", sessionId)
                         /\ UNCHANGED <<files, log, pinned, remarks, storeVars, stepVars>>
                    ELSE LET moved == Move(files, sourceFile, targetFile)
                             sessionData == parseSessionFile(targetFile, moved[targetFile])
                         IN  /\ files' = moved
                             /\ log' = IF sessionData # Null
                                       THEN FileOf(Append(Lines(log), sessionData)) ELSE log
                             /\ lastOp' = Succeeded("restoreFromRecycleBin", sessionId)
                             /\ UNCHANGED <<pinned, remarks, storeVars, stepVars>>

\* rebuildIndex()
RebuildIndex ==
    \E scan \in ScanOrders(files, DOMAIN files) :
        /\ log' = rebuildIndex(scan)
        /\ lastOp' = [op |-> "rebuildIndex", ok |-> TRUE]
        /\ UNCHANGED <<files, pinned, remarks, storeVars, stepVars>>

\* checkForNewSessions()
CheckForNewSessions ==
    LET lines == readHistoryLines(log, FALSE)
        indexedSessions == {lines[i].session_id : i \in 1..Len(lines)}
        suspect == /\ log.exists
                   /\ lines = <<>>
                   /\ unreadableSize(Lines(log)) > MinSuspectSize
        isNew(file) == /\ file.name.rollout
                       /\ matchRollout(file.name) \notin indexedSessions
    IN  \E newSessions \in ScanOrders(files, {file \in DOMAIN files : isNew(file)}) :
            LET newHistoryLines == parseAll(newSessions)
                added == IF suspect THEN 0 ELSE Len(newHistoryLines)
            IN  /\ log' = IF added = 0 THEN log ELSE FileOf(Lines(log) \o newHistoryLines)
                /\ lastOp' = [op |-> "checkForNewSessions", ok |-> TRUE, added |-> added]
                /\ UNCHANGED <<files, pinned, remarks, storeVars, stepVars>>

\* The id arrays passed to deleteSessions: the ids of a selection, listed in
\* one fixed order, and arrays that repeat one id.
IdOrder == CHOOSE order \in Orders(Ids) : TRUE

Batches ==
    LET pos(id) == CHOOSE i \in 1..Len(IdOrder) : IdOrder[i] = id
    IN  {q \in SeqsUpTo(Ids, MaxBatch) \ {<<>>} :
            \/ \A i \in 1..(Len(q) - 1) : pos(q[i]) < pos(q[i + 1])
            \/ Len(Distinct(q)) = 1}

Next ==
    \/ \E sessionIds \in Batches : DeleteSessions(sessionIds)
    \/ \E sessionId \in Ids : ArchiveSession(sessionId)
    \/ \E sessionId \in Ids : UnarchiveSession(sessionId)
    \/ \E sessionId \in Ids : RestoreFromRecycleBin(sessionId)
    \/ RebuildIndex
    \/ CheckForNewSessions

Spec == Init /\ [][Next]_vars

(***************************************************************************)
(* Queries: listSummaries over logs of every shape, with pin and unpin     *)
(***************************************************************************)
\* The lines a queried log is made of: a line of the upstream tool, an index
\* line of the same session that is newer and archived, a line whose text is
\* boilerplate, a line of a third session and a malformed line.
QueryLines ==
    {TextLine("a", 1, T_hi),
     IndexLine("a", 5, T_fix, T_cn, 3, TRUE),
     TextLine("c", 3, T_agents),
     TextLine("g", 4, T_fix),
     MalformedLine("x", 60)}

QueryLogs ==
    {FileOf(lines) : lines \in {q \in SeqsUpTo(QueryLines, MaxQueryLog) : Distinct(q) = q}}

\* The options listSummaries is called with: with and without a search, a
\* limit, onlyPinned and hideAgents.
\* Searches of two terms: the terms in the reverse order of their occurrence
\* and in another case, and two terms of which one occurs in no line.
TwoTermSearches ==
    {<<"b", "u", "g", " ", "F", "I", "X">>,
     <<"f", "i", "x", " ", "z">>}

\* The options listSummaries is called with: with and without a search, a
\* limit, onlyPinned and hideAgents.
QueryOptions ==
    {Options(search, limit, onlyPinned, hideAgents) :
        search \in {<<>>, <<"F", "i", "x">>}, limit \in {0, MaxLimit},
        onlyPinned \in BOOLEAN, hideAgents \in BOOLEAN}
    \cup {Options(search, 0, FALSE, hideAgents) :
             search \in TwoTermSearches, hideAgents \in BOOLEAN}

PinIds == {"a", "c"}

\* A manager created in a process of its own, on the state file an earlier
\* process wrote when nothing was pinned.
InitQuery ==
    /\ files = [f \in {} |-> <<>>]
    /\ log \in {NoFile} \cup QueryLogs
    /\ IsStore(createManager(stringify(DEFAULT_STATE), DEFAULT_STATE))
    /\ InitSteps
    /\ lastOp = [op |-> "init"]

\* listSummaries(options): getPinnedSet() and getRemarks() call load()
ListSummaries(options) ==
    LET store == load(TheStore)
    IN  /\ lastOp' = [op |-> "listSummaries", options |-> options,
                      result |-> listSummaries(log, store.pinned, store.remarks, options)]
        /\ BecomesStore(store)
        /\ UNCHANGED <<files, log, stepVars>>

\* HistoryManager.pin(sessionId): StateStore.pin(sessionId); the call
\* records whether it changed the pinned list.
Pin(sessionId) ==
    /\ BecomesStore(pin(TheStore, sessionId))
    /\ lastOp' = [op |-> "pin", id |-> sessionId, changed |-> pinned' # pinned]
    /\ UNCHANGED <<files, log, stepVars>>

\* HistoryManager.unpin(sessionId): StateStore.unpin(sessionId)
Unpin(sessionId) ==
    /\ BecomesStore(unpin(TheStore, sessionId))
    /\ lastOp' = [op |-> "unpin", id |-> sessionId, changed |-> pinned' # pinned]
    /\ UNCHANGED <<files, log, stepVars>>

NextQuery ==
    \/ \E options \in QueryOptions : ListSummaries(options)
    \/ \E sessionId \in PinIds : Pin(sessionId)
    \/ \E sessionId \in PinIds : Unpin(sessionId)

SpecQuery == InitQuery /\ [][NextQuery]_vars

(***************************************************************************)
(* The state store over its life: several StateStore objects of one        *)
(* process, and a state file that is missing, damaged or written earlier   *)
(***************************************************************************)
R_note == <<" ", "r", " ">>

\* The state files found at the start: none, one that does not parse, the
\* document {} and a document written by an earlier process.
StateFiles ==
    {MissingState,
     CorruptState,
     JsonState(NotGiven, NotGiven),
     JsonState(Given(<<"c">>), Given(<<[key |-> "c", value |-> Trim(R_note)]>>))}

\* The remarks setRemark is called with: blank, and text with spaces around.
RemarkTexts == {<<>>, R_note}

\* The ids setRemark is called with.
RemarkIds == {"a"}

StoreLog == FileOf(<<TextLine("a", 1, T_hi), TextLine("c", 3, T_fix)>>)

\* The first manager of a process, created on one of the state files.
InitStore ==
    /\ files = [f \in {} |-> <<>>]
    /\ log = StoreLog
    /\ \E file \in StateFiles :
          /\ IsStore(createManager(file, DEFAULT_STATE))
          /\ lastOp = [op |-> "createManager", found |-> file.kind]
    /\ InitSteps

\* HistoryManager.setRemark(sessionId, remark): StateStore.setRemark
SetRemark(sessionId, remark) ==
    /\ BecomesStore(setRemark(TheStore, sessionId, remark))
    /\ lastOp' = [op |-> "setRemark", id |-> sessionId, remark |-> remark,
                  changed |-> remarks' # remarks]
    /\ UNCHANGED <<files, log, stepVars>>

\* createManager() once more in the same process: a new StateStore is
\* made and loaded, and the manager on it replaces the one in use. The call
\* records what load() found.
CreateManager ==
    /\ BecomesStore(createManager(stateFile, defaults))
    /\ lastOp' = [op |-> "createManager", found |-> stateFile.kind]
    /\ UNCHANGED <<files, log, stepVars>>

\* The state file is damaged from outside (edited by hand, cut short by a
\* full disk): it exists and does not parse.
DamageStateFile ==
    /\ stateFile.kind = "json"
    /\ stateFile' = CorruptState
    /\ lastOp' = [op |-> "damageStateFile"]
    /\ UNCHANGED <<files, log, pinned, remarks, loaded, defaults, aliased, stepVars>>

NextStore ==
    \/ \E sessionId \in PinIds : Pin(sessionId)
    \/ \E sessionId \in PinIds : Unpin(sessionId)
    \/ \E sessionId \in RemarkIds, remark \in RemarkTexts : SetRemark(sessionId, remark)
    \/ \E options \in QueryOptions : ListSummaries(options)
    \/ CreateManager
    \/ DamageStateFile

SpecStore == InitStore /\ [][NextStore]_vars

(***************************************************************************)
(* The core of the command-line tool (dist/core/historyManager.js): its    *)
(* deleteSessions also clears the state of the deleted sessions            *)
(***************************************************************************)
\* findSessionFile(sessionId) of the command-line core: the first match of
\* fg(`**/*${sessionId}.jsonl`) under the sessions directory, else null.
cliFindSessionFile(fs, sessionId) ==
    LET matches == searchInDirectory(fs, sessionsDir, sessionId)
    IN  IF matches # {} THEN CHOOSE f \in matches : TRUE ELSE Null

\* Step 1 of deleteSessions: the loop that moves the files to the trash.
RECURSIVE cliMoveToTrash(_, _)
cliMoveToTrash(idSet, acc) ==
    IF idSet = <<>> THEN acc
    ELSE LET sessionId == Head(idSet)
             file == cliFindSessionFile(acc.files, sessionId)
             next == IF file = Null
                     THEN [acc EXCEPT !.notFoundFiles = Append(@, sessionId)]
                     ELSE [acc EXCEPT !.files = Move(@, file, trashDestination(file)),
                                      !.removedFiles = Append(@, file)]
         IN  cliMoveToTrash(Tail(idSet), next)

\* A step 3 that unpins the sessions and keeps their remarks.
RECURSIVE unpinOnly(_, _)
unpinOnly(idSet, store) ==
    IF idSet = <<>> THEN store
    ELSE unpinOnly(Tail(idSet), unpin(store, Head(idSet)))

\* Step 3 of deleteSessions: for (const sessionId of idSet)
\* { await this.unpin(sessionId); await this.state.setRemark(sessionId, '') }
RECURSIVE clearState(_, _)
clearState(idSet, store) ==
    IF idSet = <<>> THEN store
    ELSE clearState(Tail(idSet), setRemark(unpin(store, Head(idSet)), Head(idSet), <<>>))

\* The state file an earlier process left: c is pinned and has a remark.
EarlierState == JsonState(Given(<<"c">>), Given(<<[key |-> "c", value |-> Trim(R_note)]>>))

\* Both transcripts where the upstream tool wrote them, or c's in the trash.
CliFiles ==
    {FilesAt([id \in SessionIds |-> WrittenTo(id)]),
     FilesAt([id \in SessionIds |->
                 IF id = "c" THEN trashSessionsDir \o NameOf(id).date ELSE WrittenTo(id)])}

InitCli ==
    /\ files \in CliFiles
    /\ log = StoreLog
    /\ IsStore(createManager(EarlierState, DEFAULT_STATE))
    /\ InitSteps
    /\ lastOp = [op |-> "init"]

\* deleteSessions(sessionIds, options) of the command-line core
CliDeleteSessions(sessionIds) ==
    LET moved == cliMoveToTrash(Distinct(sessionIds),
                                [files |-> files, removedFiles |-> <<>>, notFoundFiles |-> <<>>])
        rewritten == rewriteHistoryExcluding(log, Range(sessionIds))
    IN  /\ files' = moved.files
        /\ log' = rewritten.log
        /\ BecomesStore(clearState(Distinct(sessionIds), TheStore))
        /\ lastOp' = [op |-> "deleteSessions", ids |-> sessionIds, ok |-> TRUE,
                      removedHistory |-> rewritten.removed,
                      removedFiles |-> moved.removedFiles,
                      notFoundFiles |-> moved.notFoundFiles]
        /\ UNCHANGED stepVars

NextCli ==
    \/ \E sessionIds \in Batches : CliDeleteSessions(sessionIds)
    \/ \E sessionId \in PinIds : Pin(sessionId)
    \/ \E sessionId \in PinIds : Unpin(sessionId)
    \/ \E sessionId \in RemarkIds, remark \in RemarkTexts : SetRemark(sessionId, remark)

SpecCli == InitCli /\ [][NextCli]_vars

(***************************************************************************)
(* The recycle bin: a session with a conversation and a session whose      *)
(* transcript holds boilerplate only, indexed, deleted, restored, listed   *)
(***************************************************************************)
RecycleIds == {"a", "b"}

\* The file system in which the transcript of session i is in where[i].
TranscriptsAt(where) ==
    [f \in {FileAt(where[i], NameOf(i)) : i \in DOMAIN where} |-> ContentOf(f.name.uuid)]

\* Each transcript where the upstream tool wrote it, or in the trash.
RecycleFiles ==
    {TranscriptsAt(where) :
        where \in {w \in [RecycleIds -> UNION {InitialDirs(i) : i \in RecycleIds}] :
                      \A i \in RecycleIds :
                         w[i] \in {WrittenTo(i), trashSessionsDir \o NameOf(i).date}}}

\* (await fs.stat(file)).mtimeMs: the time the file was last written; a move
\* keeps it. The model takes the time of the first event of the transcript.
mtimeMs(fs, file) == fs[file][1].timestamp

\* StateStore.getSessionState(sessionId) of the extension: the pin and the
\* remark of the session.
getSessionState(store, sessionId) ==
    [pinned |-> sessionId \in Range(store.pinned),
     remark |-> IF sessionId \in DOMAIN store.remarks
                THEN store.remarks[sessionId] ELSE Undefined]

\* summaries.sort((a, b) => b.lastTs - a.lastTs) (stable)
sortByLastTsDescending(result) ==
    LET insert(sorted, x) ==
            LET k == Cardinality({i \in 1..Len(sorted) : sorted[i].lastTs >= x.lastTs})
            IN  SubSeq(sorted, 1, k) \o <<x>> \o SubSeq(sorted, k + 1, Len(sorted))
        upTo[n \in 0..Len(result)] ==
            IF n = 0 THEN <<>> ELSE insert(upTo[n - 1], result[n])
    IN  upTo[Len(result)]

\* listsTrashFile without the look at the log: a session that was restored
\* or created again stays listed.
listsTrashFileIgnoringLog(sessionData, activeSessionIds) ==
    /\ sessionData # Null
    /\ sessionData.turn_count # 0
    /\ sessionData.first_text # EMPTY_SESSION

\* The conditions under which listRecycleBin lists a file of the trash.
listsTrashFile(sessionData, activeSessionIds) ==
    /\ sessionData # Null
    /\ sessionData.session_id \notin activeSessionIds
    /\ sessionData.turn_count # 0
    /\ sessionData.first_text # EMPTY_SESSION

\* The orders in which fg can list the files of the trash, each with the
\* record parseSessionFile gives for it.
TrashScanOrders(fs) ==
    Orders({[file |-> f, sessionData |-> parseSessionFile(f, fs[f])] :
               f \in Glob(fs, trashDir)})

\* listRecycleBin() when fg lists the files of the trash as `scan`
listRecycleBin(fs, file, store, scan) ==
    LET activeSessions == readHistoryLines(file, FALSE)
        activeSessionIds == {activeSessions[i].session_id : i \in 1..Len(activeSessions)}
        listed == SelectSeq(scan, LAMBDA entry :
                      listsTrashFile(entry.sessionData, activeSessionIds))
        summaryOf(entry) ==
            LET sessionData == entry.sessionData
                state == getSessionState(store, sessionData.session_id)
            IN  [sessionId |-> sessionData.session_id,
                 firstTs |-> sessionData.ts,
                 lastTs |-> mtimeMs(fs, entry.file),
                 firstText |-> OrElse(sessionData.first_text, EMPTY_SESSION),
                 lastText |-> OrElse(sessionData.last_text, <<>>),
                 count |-> sessionData.turn_count,
                 pinned |-> state.pinned,
                 isArchived |-> InArchivedPath(entry.file),
                 remark |-> state.remark]
    IN  sortByLastTsDescending([i \in 1..Len(listed) |-> summaryOf(listed[i])])

\* The options of the listings: everything, and the default (boilerplate hidden).
RecycleOptions == {Options(<<>>, 0, FALSE, FALSE), Options(<<>>, 0, FALSE, TRUE)}

\* The arrays deleteSessions is called with: ids without repeats.
RecycleBatches ==
    {q \in SeqsUpTo(RecycleIds \cup {"g"}, MaxBatch) \ {<<>>} : Distinct(q) = q}

InitRecycle ==
    /\ files \in RecycleFiles
    /\ log = NoFile
    /\ IsStore(createManager(MissingState, DEFAULT_STATE))
    /\ InitSteps
    /\ lastOp = [op |-> "init"]

\* listRecycleBin()
ListRecycleBin ==
    \E scan \in TrashScanOrders(files) :
        /\ lastOp' = [op |-> "listRecycleBin",
                      result |-> listRecycleBin(files, log, load(TheStore), scan)]
        /\ UNCHANGED <<files, log, pinned, remarks, storeVars, stepVars>>

NextRecycle ==
    \/ \E sessionIds \in RecycleBatches : DeleteSessions(sessionIds)
    \/ \E sessionId \in RecycleIds : RestoreFromRecycleBin(sessionId)
    \/ RebuildIndex
    \/ \E options \in RecycleOptions : ListSummaries(options)
    \/ ListRecycleBin

SpecRecycle == InitRecycle /\ [][NextRecycle]_vars

(***************************************************************************)
(* Writes to the log, one step at a time: the process can be interrupted   *)
(* (killed, power lost) between any two steps of a write                   *)
(***************************************************************************)
\* One more line than the logs of the calls, so that a write can be
\* interrupted with a part of the lines written.
StepLogs ==
    {FileOf(Selected(InitialLines, keep)) :
        keep \in {k \in SUBSET (1..Len(InitialLines)) : Cardinality(k) <= MaxLog + 1}}

\* Session a where the upstream tool wrote it; session c there, in the
\* archived tree or in the trash.
StepFiles ==
    {FilesAt([id \in SessionIds |-> IF id = "c" THEN dir ELSE WrittenTo(id)]) :
        dir \in InitialDirs("c")}

\* The arrays deleteSessions is called with here: one id.
StepBatches == {<<id>> : id \in Ids}

InitStepwise ==
    /\ files \in StepFiles
    /\ log \in {NoFile} \cup StepLogs
    /\ IsStore(createManager(MissingState, DEFAULT_STATE))
    /\ InitSteps
    /\ lastOp = [op |-> "init"]

Started(call) == [op |-> "started", call |-> call]

\* One iteration of the loop of a rewrite that takes the line out of the
\* log itself.
rewriteStepInPlace(file, temp, line, sessionIds, removed) ==
    LET drop == line.json /\ line.session_id \in sessionIds
        at == CHOOSE i \in 1..Len(Lines(file)) : Lines(file)[i] = line
    IN  [log |-> IF drop
                 THEN FileOf(SubSeq(Lines(file), 1, at - 1)
                             \o SubSeq(Lines(file), at + 1, Len(Lines(file))))
                 ELSE file,
         temp |-> temp,
         removed |-> IF drop THEN removed + 1 ELSE removed]

\* One iteration of the loop of rewriteHistoryExcluding: the line read from
\* the log is written to the temp file, or counted as removed.
rewriteStep(file, temp, line, sessionIds, removed) ==
    LET done == rewriteLoop(<<line>>, sessionIds, [output |-> Lines(temp), removed |-> removed])
    IN  [log |-> file, temp |-> FileOf(done.output), removed |-> done.removed]

\* deleteSessions(sessionIds) up to the point where rewriteHistoryExcluding
\* has opened the temp file (the whole call when there is no log).
StartDelete(sessionIds) ==
    LET moved == moveToTrash(Distinct(sessionIds),
                             [files |-> files, removedFiles |-> <<>>, notFoundFiles |-> <<>>])
    IN  /\ writing = Idle
        /\ files' = moved.files
        /\ IF ~log.exists
           THEN /\ lastOp' = [op |-> "deleteSessions", ids |-> sessionIds, ok |-> TRUE,
                              removedHistory |-> 0,
                              removedFiles |-> moved.removedFiles,
                              notFoundFiles |-> moved.notFoundFiles]
                /\ UNCHANGED <<tempFile, writing>>
           ELSE /\ tempFile' = FileOf(<<>>)
                /\ writing' = [op |-> "deleteSessions", ids |-> sessionIds,
                               removedFiles |-> moved.removedFiles,
                               notFoundFiles |-> moved.notFoundFiles,
                               before |-> log,
                               after |-> rewriteHistoryExcluding(log, Range(sessionIds)).log,
                               rest |-> Lines(log), removed |-> 0]
                /\ lastOp' = Started("deleteSessions")
        /\ UNCHANGED <<log, pinned, remarks, storeVars>>

\* for await (const line of rl): one line of the log is read and handled
RewriteLine ==
    /\ writing.op = "deleteSessions"
    /\ writing.rest # <<>>
    /\ LET step == rewriteStep(log, tempFile, Head(writing.rest),
                               Range(writing.ids), writing.removed)
       IN  /\ log' = step.log
           /\ tempFile' = step.temp
           /\ writing' = [writing EXCEPT !.rest = Tail(@), !.removed = step.removed]
    /\ UNCHANGED <<files, pinned, remarks, lastOp, storeVars>>

\* output.end(), then fs.move(tempFile, file, { overwrite: true }) and the
\* return of deleteSessions. The move is taken as one step.
FinishDelete ==
    /\ writing.op = "deleteSessions"
    /\ writing.rest = <<>>
    /\ log' = tempFile
    /\ tempFile' = NoFile
    /\ writing' = Idle
    /\ lastOp' = [op |-> "deleteSessions", ids |-> writing.ids, ok |-> TRUE,
                  removedHistory |-> writing.removed,
                  removedFiles |-> writing.removedFiles,
                  notFoundFiles |-> writing.notFoundFiles]
    /\ UNCHANGED <<files, pinned, remarks, storeVars>>

\* rebuildIndex() of `caller`, on the files fs, up to the point where
\* fs.createWriteStream(historyFile, { flags: 'w' }) has opened the log:
\* the log exists and is empty.
StartsRebuild(caller, sessionId, fs) ==
    \E scan \in ScanOrders(fs, DOMAIN fs) :
        /\ files' = fs
        /\ log' = FileOf(<<>>)
        /\ writing' = [op |-> "rebuildIndex", caller |-> caller, id |-> sessionId,
                       before |-> log, after |-> rebuildIndex(scan),
                       rest |-> Lines(rebuildIndex(scan))]
        /\ lastOp' = Started(caller)
        /\ UNCHANGED <<tempFile, pinned, remarks, storeVars>>

StartRebuildIndex ==
    /\ writing = Idle
    /\ StartsRebuild("rebuildIndex", "", files)

\* archiveSession(sessionId) up to the opening of the log by rebuildIndex
StartArchive(sessionId) ==
    LET file == findSessionFile(files, sessionId)
    IN  /\ writing = Idle
        /\ IF file = Null \/ InArchivedPath(file)
           THEN /\ lastOp' = Failed("archiveSession", sessionId)
                /\ UNCHANGED <<files, log, pinned, remarks, storeVars, stepVars>>
           ELSE StartsRebuild("archiveSession", sessionId,
                              Move(files, file, FileAt(archivedSessionsDir, file.name)))

\* unarchiveSession(sessionId) up to the opening of the log by rebuildIndex
StartUnarchive(sessionId) ==
    LET file == findSessionFile(files, sessionId)
    IN  /\ writing = Idle
        /\ IF file = Null \/ ~InArchivedPath(file)
           THEN /\ lastOp' = Failed("unarchiveSession", sessionId)
                /\ UNCHANGED <<files, log, pinned, remarks, storeVars, stepVars>>
           ELSE StartsRebuild("unarchiveSession", sessionId,
                              Move(files, file, FileAt(datedSessionsDir(file.name), file.name)))

\* stream.write(JSON.stringify(line) + '\n'): one line reaches the log
WriteIndexLine ==
    /\ writing.op = "rebuildIndex"
    /\ writing.rest # <<>>
    /\ log' = FileOf(Append(Lines(log), Head(writing.rest)))
    /\ writing' = [writing EXCEPT !.rest = Tail(@)]
    /\ UNCHANGED <<files, tempFile, pinned, remarks, lastOp, storeVars>>

\* stream.end(), 'finish', and the return of the call
FinishRebuild ==
    /\ writing.op = "rebuildIndex"
    /\ writing.rest = <<>>
    /\ writing' = Idle
    /\ lastOp' = IF writing.caller = "rebuildIndex"
                 THEN [op |-> "rebuildIndex", ok |-> TRUE]
                 ELSE Succeeded(writing.caller, writing.id)
    /\ UNCHANGED <<files, log, tempFile, pinned, remarks, storeVars>>

\* The process is interrupted during a write: the call never returns, the
\* disk stays as it is. What the log held before the call and what the
\* call was going to leave in it are recorded.
Interrupt ==
    /\ writing # Idle
    /\ writing' = Idle
    /\ lastOp' = [op |-> "interrupted", during |-> writing.op,
                  before |-> writing.before, after |-> writing.after]
    /\ UNCHANGED <<files, log, tempFile, pinned, remarks, storeVars>>

NextStepwise ==
    \/ \E sessionIds \in StepBatches : StartDelete(sessionIds)
    \/ RewriteLine
    \/ FinishDelete
    \/ StartRebuildIndex
    \/ \E sessionId \in Ids : StartArchive(sessionId)
    \/ \E sessionId \in Ids : StartUnarchive(sessionId)
    \/ WriteIndexLine
    \/ FinishRebuild
    \/ Interrupt

SpecStepwise == InitStepwise /\ [][NextStepwise]_vars

(***************************************************************************)
(* I/O errors: fs.move of deleteSessions can throw (EACCES, EBUSY, ENOSPC   *)
(* on a move across devices); deleteSessions has no try/catch, so the      *)
(* error ends the call where it is raised                                  *)
(***************************************************************************)
\* Step 1 of deleteSessions when the move of every file in `failing` throws:
\* the loop ends at the first such file, with the earlier moves done.
RECURSIVE moveToTrashOrThrow(_, _, _)
moveToTrashOrThrow(idSet, acc, failing) ==
    IF idSet = <<>> THEN acc
    ELSE LET sessionId == Head(idSet)
             file == findSessionFile(acc.files, sessionId)
         IN  IF file = Null
             THEN moveToTrashOrThrow(Tail(idSet),
                      [acc EXCEPT !.notFoundFiles = Append(@, sessionId)], failing)
             ELSE IF file \in failing
             THEN [acc EXCEPT !.thrown = TRUE]
             ELSE moveToTrashOrThrow(Tail(idSet),
                      [acc EXCEPT !.files = Move(@, file, trashDestination(file)),
                                  !.removedFiles = Append(@, file)], failing)

\* The files whose move throws during one call: none, or one of the files.
Failing(fs) == {{}} \cup {{f} : f \in DOMAIN fs}

\* deleteSessions(sessionIds) when the move of the files in `failing` throws:
\* the promise is rejected and step 2, the rewrite of the log, is not reached.
DeleteSessionsOrThrow(sessionIds, failing) ==
    LET moved == moveToTrashOrThrow(Distinct(sessionIds),
                     [files |-> files, removedFiles |-> <<>>, notFoundFiles |-> <<>>,
                      thrown |-> FALSE], failing)
        rewritten == rewriteHistoryExcluding(log, Range(sessionIds))
    IN  /\ files' = moved.files
        /\ log' = IF moved.thrown THEN log ELSE rewritten.log
        /\ lastOp' = IF moved.thrown
                     THEN [op |-> "deleteSessions", ids |-> sessionIds, ok |-> FALSE,
                           removedFiles |-> moved.removedFiles]
                     ELSE [op |-> "deleteSessions", ids |-> sessionIds, ok |-> TRUE,
                           removedHistory |-> rewritten.removed,
                           removedFiles |-> moved.removedFiles,
                           notFoundFiles |-> moved.notFoundFiles]
        /\ UNCHANGED <<pinned, remarks, storeVars, stepVars>>

NextFaults ==
    \/ \E sessionIds \in Batches : \E failing \in Failing(files) :
          DeleteSessionsOrThrow(sessionIds, failing)
    \/ RebuildIndex

SpecFaults == Init /\ [][NextFaults]_vars

(***************************************************************************)
(* The recycle bin when a move can fail: a failed deleteSessions leaves a  *)
(* transcript in the trash whose line is still in the log                  *)
(***************************************************************************)
MaxBinLog == 3      \* lines of the log up to which restoreFromRecycleBin is called

NextBin ==
    \/ \E sessionIds \in RecycleBatches : \E failing \in Failing(files) :
          DeleteSessionsOrThrow(sessionIds, failing)
    \/ \E sessionId \in RecycleIds :
          /\ Len(Lines(log)) < MaxBinLog
          /\ RestoreFromRecycleBin(sessionId)
    \/ RebuildIndex
    \/ ListRecycleBin

SpecBin == InitRecycle /\ [][NextBin]_vars

(***************************************************************************)
(* The index over a session's life: from a log that rebuildIndex has just  *)
(* written, every call that moves a transcript or appends to the log       *)
(***************************************************************************)
IndexIds == {"a", "7-d"}

MaxIndexLog == 4    \* lines of the log beyond which checkForNewSessions is not called

\* Each transcript where the upstream tool wrote it, archived, or in the trash.
IndexFiles ==
    {TranscriptsAt(where) :
        where \in {w \in [IndexIds -> UNION {InitialDirs(i) : i \in IndexIds}] :
                      \A i \in IndexIds : w[i] \in InitialDirs(i)}}

IndexBatches ==
    {q \in SeqsUpTo(IndexIds \cup {"g"}, MaxBatch) \ {<<>>} : Distinct(q) = q}

InitIndex ==
    /\ files \in IndexFiles
    /\ \E scan \in ScanOrders(files, DOMAIN files) : log = rebuildIndex(scan)
    /\ IsStore(createManager(MissingState, DEFAULT_STATE))
    /\ InitSteps
    /\ lastOp = [op |-> "rebuildIndex", ok |-> TRUE]

NextIndex ==
    \/ \E sessionIds \in IndexBatches : DeleteSessions(sessionIds)
    \/ \E sessionId \in IndexIds : ArchiveSession(sessionId)
    \/ \E sessionId \in IndexIds : UnarchiveSession(sessionId)
    \/ \E sessionId \in IndexIds : RestoreFromRecycleBin(sessionId)
    \/ Len(Lines(log)) < MaxIndexLog /\ CheckForNewSessions

SpecIndex == InitIndex /\ [][NextIndex]_vars

(***************************************************************************)
(* The webview panel (extension.ts): onDidReceiveMessage starts onMessage  *)
(* for every message and does not wait for it, so the handlers of two      *)
(* messages run in one process and give way to each other at every await   *)
(***************************************************************************)
PanelIds == {"a", "c"}

\* The transcripts in the active or the archived tree.
PanelFiles ==
    {TranscriptsAt(where) :
        where \in {w \in [PanelIds -> UNION {InitialDirs(i) : i \in PanelIds}] :
                      \A i \in PanelIds : w[i] \in {WrittenTo(i), archivedSessionsDir}}}

\* A handler that has run to its end.
Returned == [op |-> "returned"]

\* No message is being handled.
NoHandlers == [deleteSession |-> Idle, archiveToggle |-> Idle]

InitPanel ==
    /\ files \in PanelFiles
    /\ \E scan \in ScanOrders(files, DOMAIN files) : log = rebuildIndex(scan)
    /\ IsStore(createManager(MissingState, DEFAULT_STATE))
    /\ tempFile = NoFile
    /\ writing = NoHandlers
    /\ lastOp = [op |-> "rebuildIndex", ok |-> TRUE]

\* Message deleteSession: handleDelete, confirmed, up to the end of step 1 of
\* deleteSessions([sessionId]) (the move to the trash).
HandleDelete(sessionId) ==
    LET moved == moveToTrash(<<sessionId>>,
                     [files |-> files, removedFiles |-> <<>>, notFoundFiles |-> <<>>])
    IN  /\ writing.deleteSession = Idle
        /\ files' = moved.files
        /\ writing' = [writing EXCEPT
                          !.deleteSession = [op |-> "moved", ids |-> {sessionId}]]
        /\ lastOp' = [op |-> "handleDelete", id |-> sessionId]
        /\ UNCHANGED <<log, pinned, remarks, storeVars, tempFile>>

\* rewriteHistoryExcluding up to output.end(): the lines to keep are in the
\* temp file (with no log the call returns at once).
DeleteWritesTemp ==
    /\ writing.deleteSession.op = "moved"
    /\ IF ~log.exists
       THEN /\ writing' = [writing EXCEPT !.deleteSession = Returned]
            /\ UNCHANGED tempFile
       ELSE /\ tempFile' = rewriteHistoryExcluding(log, writing.deleteSession.ids).log
            /\ writing' = [writing EXCEPT !.deleteSession.op = "staged"]
    /\ lastOp' = [op |-> "deleteWritesTemp"]
    /\ UNCHANGED <<files, log, pinned, remarks, storeVars>>

\* fs.move(tempFile, file, { overwrite: true }) and the return of the call.
DeleteReplacesLog ==
    /\ writing.deleteSession.op = "staged"
    /\ log' = tempFile
    /\ tempFile' = NoFile
    /\ writing' = [writing EXCEPT !.deleteSession = Returned]
    /\ lastOp' = [op |-> "deleteReplacesLog"]
    /\ UNCHANGED <<files, pinned, remarks, storeVars>>

\* Message archiveToggle for a session shown as not archived: handleArchive
\* up to the move of archiveSession (an error is caught and shown).
HandleArchive(sessionId) ==
    LET file == findSessionFile(files, sessionId)
    IN  /\ writing.archiveToggle = Idle
        /\ IF file = Null \/ InArchivedPath(file)
           THEN /\ writing' = [writing EXCEPT !.archiveToggle = Returned]
                /\ UNCHANGED files
           ELSE /\ files' = Move(files, file, FileAt(archivedSessionsDir, file.name))
                /\ writing' = [writing EXCEPT !.archiveToggle = [op |-> "moved"]]
        /\ lastOp' = [op |-> "handleArchive", id |-> sessionId]
        /\ UNCHANGED <<log, pinned, remarks, storeVars, tempFile>>

\* rebuildIndex up to the sort: the files are listed and parsed.
ArchiveScans ==
    /\ writing.archiveToggle.op = "moved"
    /\ \E scan \in ScanOrders(files, DOMAIN files) :
          writing' = [writing EXCEPT
                         !.archiveToggle = [op |-> "scanned",
                                            lines |-> Lines(rebuildIndex(scan))]]
    /\ lastOp' = [op |-> "archiveScans"]
    /\ UNCHANGED <<files, log, pinned, remarks, storeVars, tempFile>>

\* rebuildIndex from fs.createWriteStream(historyFile, { flags: 'w' }) to the
\* end of the stream, and the return of the call.
ArchiveWritesLog ==
    /\ writing.archiveToggle.op = "scanned"
    /\ log' = FileOf(writing.archiveToggle.lines)
    /\ writing' = [writing EXCEPT !.archiveToggle = Returned]
    /\ lastOp' = [op |-> "archiveWritesLog"]
    /\ UNCHANGED <<files, pinned, remarks, storeVars, tempFile>>

NextPanel ==
    \/ \E sessionId \in PanelIds : HandleDelete(sessionId)
    \/ DeleteWritesTemp
    \/ DeleteReplacesLog
    \/ \E sessionId \in PanelIds : HandleArchive(sessionId)
    \/ ArchiveScans
    \/ ArchiveWritesLog

SpecPanel == InitPanel /\ [][NextPanel]_vars

(***************************************************************************)
(* Two processes on one home (a command-line delete and the delete of a    *)
(* server or of the extension): each runs deleteSessions on its own        *)
(* session; nothing locks history.jsonl or history.jsonl.tmp               *)
(***************************************************************************)
Processes == {"p", "q"}

\* A move of the temp file by a process that finds it gone: fs.move rejects.
Rejected == [op |-> "rejected"]

InitRace ==
    /\ files \in PanelFiles
    /\ log \in StepLogs
    /\ IsStore(createManager(MissingState, DEFAULT_STATE))
    /\ tempFile = NoFile
    /\ writing = [proc \in Processes |-> Idle]
    /\ lastOp = [op |-> "init", log |-> log]

\* The sessions that the calls under way or ended were made for.
Claimed == UNION {writing[proc].ids : proc \in {r \in Processes : writing[r] # Idle}}

\* Step 1 of deleteSessions([sessionId]) in process proc.
RaceMoves(proc, sessionId) ==
    LET moved == moveToTrash(<<sessionId>>,
                     [files |-> files, removedFiles |-> <<>>, notFoundFiles |-> <<>>])
    IN  /\ writing[proc] = Idle
        /\ sessionId \notin Claimed
        /\ files' = moved.files
        /\ writing' = [writing EXCEPT ![proc] = [op |-> "moved", ids |-> {sessionId}]]
        /\ lastOp' = [lastOp EXCEPT !.op = "moves"]
        /\ UNCHANGED <<log, pinned, remarks, storeVars, tempFile>>

\* A rewrite that opens the temp file for appending.
RaceAppendsTemp(proc) ==
    /\ writing[proc].op = "moved"
    /\ tempFile' = FileOf(Lines(tempFile)
                          \o Lines(rewriteHistoryExcluding(log, writing[proc].ids).log))
    /\ writing' = [writing EXCEPT ![proc].op = "staged"]
    /\ lastOp' = [lastOp EXCEPT !.op = "writesTemp"]
    /\ UNCHANGED <<files, log, pinned, remarks, storeVars>>

\* rewriteHistoryExcluding in process proc up to output.end():
\* createWriteStream(tempFile) empties the temp file, whoever wrote it.
RaceWritesTemp(proc) ==
    /\ writing[proc].op = "moved"
    /\ tempFile' = rewriteHistoryExcluding(log, writing[proc].ids).log
    /\ writing' = [writing EXCEPT ![proc].op = "staged"]
    /\ lastOp' = [lastOp EXCEPT !.op = "writesTemp"]
    /\ UNCHANGED <<files, log, pinned, remarks, storeVars>>

\* fs.move(tempFile, file, { overwrite: true }) in process proc: the temp
\* file replaces the log, or is gone (the other process has moved it).
RaceReplacesLog(proc) ==
    /\ writing[proc].op = "staged"
    /\ IF tempFile.exists
       THEN /\ log' = tempFile
            /\ tempFile' = NoFile
            /\ writing' = [writing EXCEPT ![proc].op = "returned"]
       ELSE /\ writing' = [writing EXCEPT ![proc].op = "rejected"]
            /\ UNCHANGED <<log, tempFile>>
    /\ lastOp' = [lastOp EXCEPT !.op = "replacesLog"]
    /\ UNCHANGED <<files, pinned, remarks, storeVars>>

NextRace ==
    \/ \E proc \in Processes, sessionId \in PanelIds : RaceMoves(proc, sessionId)
    \/ \E proc \in Processes : RaceWritesTemp(proc)
    \/ \E proc \in Processes : RaceReplacesLog(proc)

SpecRace == InitRace /\ [][NextRace]_vars

(***************************************************************************)
(* A trip through the recycle bin of sessions that are pinned and carry a  *)
(* remark (extension core)                                                 *)
(***************************************************************************)
InitTrip ==
    /\ files = FilesAt([id \in SessionIds |-> WrittenTo(id)])
    /\ log = StoreLog
    /\ \E file \in {stringify(DEFAULT_STATE), EarlierState} :
          IsStore(createManager(file, DEFAULT_STATE))
    /\ InitSteps
    /\ lastOp = [op |-> "init"]

NextTrip ==
    \/ \E sessionIds \in Batches : DeleteSessions(sessionIds)
    \/ \E sessionId \in Ids : RestoreFromRecycleBin(sessionId)
    \/ \E sessionId \in PinIds : Pin(sessionId)
    \/ \E sessionId \in PinIds : Unpin(sessionId)
    \/ \E sessionId \in PinIds, remark \in RemarkTexts : SetRemark(sessionId, remark)

SpecTrip == InitTrip /\ [][NextTrip]_vars

(***************************************************************************)
(* Sessions with more than one line in the log: a session indexed in the   *)
(* active tree and again in the archived tree, listed                      *)
(***************************************************************************)
CountLines ==
    {IndexLine("a", 3, T_fix, T_hi, 2, FALSE),
     IndexLine("a", 3, T_fix, T_hi, 2, TRUE),
     IndexLine("c", 1, T_hi, T_hi, 1, FALSE)}

CountLogs ==
    {FileOf(lines) : lines \in {q \in SeqsUpTo(CountLines, MaxQueryLog) : Distinct(q) = q}}

CountOptions ==
    {Options(<<>>, limit, FALSE, hideAgents) : limit \in {0, MaxLimit}, hideAgents \in BOOLEAN}

InitCount ==
    /\ files = FilesAt([id \in SessionIds |-> WrittenTo(id)])
    /\ log \in CountLogs
    /\ IsStore(createManager(stringify(DEFAULT_STATE), DEFAULT_STATE))
    /\ InitSteps
    /\ lastOp = [op |-> "init"]

NextCount ==
    \/ \E options \in CountOptions : ListSummaries(options)
    \/ \E sessionId \in PinIds : Pin(sessionId)
    \/ \E sessionId \in PinIds : Unpin(sessionId)

SpecCount == InitCount /\ [][NextCount]_vars

(***************************************************************************)
(* Deletes from logs that hold several lines JSON.parse rejects, one of    *)
(* them twice, between the lines of the sessions                           *)
(***************************************************************************)
MaxRewriteLog == 3  \* lines of the log before the first call

RewriteLines ==
    <<MalformedLine("x", 60),
      TextLine("a", 1, T_hi),
      MalformedLine("y", 70),
      TextLine("c", 2, T_fix),
      MalformedLine("x", 60)>>

RewriteLogs ==
    {FileOf(Selected(RewriteLines, keep)) :
        keep \in {k \in SUBSET (1..Len(RewriteLines)) : Cardinality(k) <= MaxRewriteLog}}

InitRewrite ==
    /\ files \in InitialFiles
    /\ log \in {NoFile} \cup RewriteLogs
    /\ IsStore(createManager(MissingState, DEFAULT_STATE))
    /\ InitSteps
    /\ lastOp = [op |-> "init"]

NextRewrite ==
    \E sessionIds \in Batches : DeleteSessions(sessionIds)

SpecRewrite == InitRewrite /\ [][NextRewrite]_vars

(***************************************************************************)
(* Properties                                                              *)
(***************************************************************************)
\* Whether a log line belongs to one of the sessions in D.
LineOf(line, D) == line.json /\ line.session_id \in D

\* C1: after deleteSessions(D) returns, the log holds exactly the lines of the
\* log before the call whose session_id is not in D, unaltered and in their
\* original order, and removedHistory is the number of lines of the log
\* before the call whose session_id is in D.
C1_DeleteRewritesLog ==
    [][lastOp'.op = "deleteSessions" =>
         LET D == Range(lastOp'.ids)
             before == Lines(log)
         IN  /\ Lines(log') = SelectSeq(before, LAMBDA line : ~LineOf(line, D))
             /\ lastOp'.removedHistory =
                    Cardinality({i \in 1..Len(before) : LineOf(before[i], D)})]_vars

\* A delete that removed two lines of one session and kept a malformed line
\* and a line of another session.
C1_Witness ==
    /\ lastOp.op = "deleteSessions"
    /\ lastOp.removedHistory = 2
    /\ \E i, j \in 1..Len(Lines(log)) :
          /\ ~Lines(log)[i].json
          /\ Lines(log)[j].json

\* The transcripts of session id under directory dir.
TranscriptsOf(fs, dir, id) == {f \in Glob(fs, dir) : f.name.uuid = id}

\* The transcripts of session id in the active and the archived tree.
Live(fs, id) ==
    TranscriptsOf(fs, sessionsDir, id) \cup TranscriptsOf(fs, archivedSessionsDir, id)

\* C2: after deleteSessions([id]) returns for an id whose transcript is in the
\* active or the archived tree, the transcript is in neither tree, it is in
\* the trash tree at the path, relative to the sessions directory of the
\* trash, that it had relative to the sessions directory, and removedFiles
\* reports its original path.
C2_DeleteMovesToTrash ==
    [][(lastOp'.op = "deleteSessions" /\ Len(lastOp'.ids) = 1
            /\ Live(files, lastOp'.ids[1]) # {}) =>
         LET id == lastOp'.ids[1]
         IN  \A original \in Live(files, id) :
                /\ Live(files', id) = {}
                /\ \E moved \in TranscriptsOf(files', trashDir, id) :
                      /\ moved.name = original.name
                      /\ Relative(trashSessionsDir, moved.dir) = Relative(sessionsDir, original.dir)
                      /\ files'[moved] = files[original]
                /\ lastOp'.removedFiles = <<original>>]_vars

\* A delete of one session whose transcript was in a dated directory of the
\* active tree and now is in the trash.
C2_Witness ==
    /\ lastOp.op = "deleteSessions"
    /\ Len(lastOp.ids) = 1
    /\ Len(lastOp.removedFiles) = 1
    /\ LET original == lastOp.removedFiles[1]
       IN  /\ IsPrefix(sessionsDir, original.dir)
           /\ Len(original.dir) > Len(sessionsDir)
           /\ original \notin DOMAIN files
           /\ TranscriptsOf(files, trashDir, lastOp.ids[1]) # {}

\* The locations that hold a transcript of session id.
Locations(fs, id) ==
    {where \in {"active", "archived", "trash"} :
        TranscriptsOf(fs, CASE where = "active" -> sessionsDir
                            [] where = "archived" -> archivedSessionsDir
                            [] where = "trash" -> trashDir, id) # {}}

\* Session id has one transcript file, in one of the three trees, with the
\* content it had initially.
OneCopy(fs, id) ==
    /\ Cardinality({f \in DOMAIN fs : f.name.uuid = id}) = 1
    /\ Cardinality(Locations(fs, id)) = 1
    /\ \A f \in DOMAIN fs : f.name.uuid = id => fs[f] = ContentOf(id)

\* The location changes and the call that makes each of them.
AllowedMoves ==
    {<<"active", "trash", "deleteSessions">>,
     <<"archived", "trash", "deleteSessions">>,
     <<"active", "archived", "archiveSession">>,
     <<"archived", "active", "unarchiveSession">>,
     <<"trash", "active", "restoreFromRecycleBin">>}

\* C3: after any sequence of deleteSessions, archiveSession, unarchiveSession,
\* restoreFromRecycleBin, rebuildIndex and checkForNewSessions calls every
\* initial transcript exists exactly once, in the active tree, the archived
\* tree or the trash, with unchanged content; and a call changes the location
\* of a transcript only from active or archived to trash (delete), from
\* active to archived (archive), from archived to active (unarchive) or from
\* trash to active (restore).
C3_TranscriptLocations ==
    /\ [](\A id \in SessionIds : OneCopy(files, id))
    /\ [][\A id \in SessionIds :
             \A from \in Locations(files, id), to \in Locations(files', id) :
                from # to => <<from, to, lastOp'.op>> \in AllowedMoves]_vars

\* One transcript has been restored from the trash while the other one is
\* in the archived tree.
C3_Witness ==
    /\ lastOp.op = "restoreFromRecycleBin"
    /\ lastOp.ok
    /\ Locations(files, lastOp.id) = {"active"}
    /\ \E id \in SessionIds : Locations(files, id) = {"archived"}

\* The transcript files in the active and the archived tree.
Indexable(fs) == Glob(fs, sessionsDir) \cup Glob(fs, archivedSessionsDir)

\* C4: after rebuildIndex returns, the log holds exactly one line for each
\* transcript file in the active or the archived tree and no other line
\* (lines of sessions without a file there and malformed lines are gone),
\* and its lines are ordered by timestamp descending.
C4_RebuildOneLinePerFile ==
    lastOp.op = "rebuildIndex" =>
        LET lines == Lines(log)
        IN  /\ log.exists
            /\ \A i \in 1..Len(lines) :
                  /\ lines[i].json
                  /\ \E f \in Indexable(files) : f.name.uuid = lines[i].session_id
            /\ \A f \in Indexable(files) :
                  Cardinality({i \in 1..Len(lines) : lines[i].session_id = f.name.uuid}) = 1
            /\ \A i, j \in 1..Len(lines) : i < j => lines[i].ts >= lines[j].ts

\* A rebuild that indexed one transcript of the active tree and one of the
\* archived tree.
C4_Witness ==
    /\ lastOp.op = "rebuildIndex"
    /\ Len(Lines(log)) = 2
    /\ Glob(files, sessionsDir) # {}
    /\ Glob(files, archivedSessionsDir) # {}

\* C5: rebuildIndex is idempotent: a second run right after a first one, the
\* transcript files being the same, leaves the log with the content the
\* first run gave it.
C5_RebuildIdempotent ==
    [][(lastOp.op = "rebuildIndex" /\ lastOp'.op = "rebuildIndex") =>
         (files' = files /\ log' = log)]_vars

\* A rebuild that indexed two transcripts of the active tree, which a scan
\* may list in either order.
C5_Witness ==
    /\ lastOp.op = "rebuildIndex"
    /\ Cardinality(Glob(files, sessionsDir)) = 2
    /\ Len(Lines(log)) = 2

\* listSummaries called without search, limit, onlyPinned and hideAgents.
Unfiltered == Options(<<>>, 0, FALSE, FALSE)

\* The summaries listSummaries returns for session id on the current log.
SummariesOf(file, id) ==
    SelectSeq(listSummaries(file, pinned, remarks, Unfiltered),
              LAMBDA item : item.sessionId = id)

\* C6: for an id whose transcript is in the active tree archiveSession(id)
\* succeeds, and unarchiveSession(id) right after it succeeds and leaves the
\* transcript in the active tree, where findSessionFile locates it by the
\* same id, and the log with an entry for id whose archived flag is false,
\* so that listSummaries reports the session with isArchived false.
C6_ArchiveRoundTrip ==
    [][/\ (lastOp'.op = "archiveSession"
            /\ Locations(files, lastOp'.id) = {"active"}) =>
              (lastOp'.ok /\ Locations(files', lastOp'.id) = {"archived"})
       /\ (lastOp.op = "archiveSession" /\ lastOp.ok
            /\ lastOp'.op = "unarchiveSession"
            /\ lastOp'.id = lastOp.id) =>
              LET id == lastOp.id
                  entries == SelectSeq(Lines(log'), LAMBDA line : LineOf(line, {id}))
                  summaries == SummariesOf(log', id)
              IN  /\ lastOp'.ok
                  /\ Locations(files', id) = {"active"}
                  /\ findSessionFile(files', id) # Null
                  /\ findSessionFile(files', id).name.uuid = id
                  /\ Len(entries) = 1
                  /\ ~entries[1].is_archived
                  /\ Len(summaries) = 1
                  /\ ~summaries[1].isArchived]_vars

\* An unarchive succeeded: the transcript is in the active tree and the
\* session is listed as not archived.
C6_Witness ==
    /\ lastOp.op = "unarchiveSession"
    /\ lastOp.ok
    /\ Locations(files, lastOp.id) = {"active"}
    /\ Len(SummariesOf(log, lastOp.id)) = 1
    /\ ~SummariesOf(log, lastOp.id)[1].isArchived

\* C7: archiveSession(id) on a transcript that is in the archived tree and
\* unarchiveSession(id) on a transcript that is not in the archived tree fail
\* and change nothing: no transcript moves, and the log and the pinned ids
\* and remarks of the state file are as before the call.
C7_WrongStateFails ==
    [][((lastOp'.op = "archiveSession" /\ Locations(files, lastOp'.id) = {"archived"})
        \/ (lastOp'.op = "unarchiveSession" /\ "archived" \notin Locations(files, lastOp'.id))) =>
          /\ ~lastOp'.ok
          /\ files' = files
          /\ log' = log
          /\ pinned' = pinned
          /\ remarks' = remarks]_vars

\* An archiveSession failed on a transcript of the archived tree whose
\* session the log does not list as archived.
C7_Witness ==
    /\ lastOp.op = "archiveSession"
    /\ ~lastOp.ok
    /\ Locations(files, lastOp.id) = {"archived"}
    /\ \A i \in 1..Len(Lines(log)) :
          LineOf(Lines(log)[i], {lastOp.id}) => ~Lines(log)[i].is_archived

\* C8: restoreFromRecycleBin(id) for a transcript in the trash moves it into
\* the active tree, whichever tree it was deleted from, and appends exactly
\* one freshly parsed record of it to the log, every line the log had staying
\* in place unchanged, so that listSummaries returns the session again.
C8_RestoreAppends ==
    [][(lastOp'.op = "restoreFromRecycleBin"
            /\ Locations(files, lastOp'.id) = {"trash"}) =>
         LET id == lastOp'.id
             before == Lines(log)
             after == Lines(log')
         IN  /\ lastOp'.ok
             /\ Locations(files', id) = {"active"}
             /\ Len(after) = Len(before) + 1
             /\ SubSeq(after, 1, Len(before)) = before
             /\ \E f \in TranscriptsOf(files', sessionsDir, id) :
                   after[Len(after)] = parseSessionFile(f, ContentOf(id))
             /\ after[Len(after)].session_id = id
             /\ Len(SummariesOf(log', id)) = 1]_vars

\* A restore succeeded: the transcript is in the active tree and the log
\* ends with its record, after a malformed line.
C8_Witness ==
    /\ lastOp.op = "restoreFromRecycleBin"
    /\ lastOp.ok
    /\ Locations(files, lastOp.id) = {"active"}
    /\ Len(Lines(log)) >= 2
    /\ Lines(log)[Len(Lines(log))].json
    /\ Lines(log)[Len(Lines(log))].session_id = lastOp.id
    /\ ~Lines(log)[Len(Lines(log))].is_archived
    /\ \E i \in 1..(Len(Lines(log)) - 1) : ~Lines(log)[i].json

\* The lines of session id in a log, and the session ids that appear in it.
LinesOf(file, id) == SelectSeq(Lines(file), LAMBDA line : LineOf(line, {id}))
SessionsIn(file) == {Lines(file)[i].session_id : i \in {j \in 1..Len(Lines(file)) : Lines(file)[j].json}}

\* C9: listSummaries without search, limit, onlyPinned and hideAgents returns
\* exactly one summary for each session_id that appears in the log and none
\* for any other id; its lastTs is the maximum and its firstTs the minimum
\* of the timestamps of the lines of the session, and its isArchived is true
\* if and only if one of these lines carries the archived flag.
C9_OneSummaryPerSession ==
    (lastOp.op = "listSummaries" /\ lastOp.options = Unfiltered) =>
        LET result == lastOp.result
        IN  /\ {result[i].sessionId : i \in 1..Len(result)} = SessionsIn(log)
            /\ Len(result) = Cardinality(SessionsIn(log))
            /\ \A i \in 1..Len(result) :
                  LET mine == LinesOf(log, result[i].sessionId)
                      stamps == {mine[k].ts : k \in 1..Len(mine)}
                  IN  /\ result[i].lastTs \in stamps
                      /\ result[i].firstTs \in stamps
                      /\ \A t \in stamps : result[i].firstTs <= t /\ t <= result[i].lastTs
                      /\ result[i].isArchived <=> \E k \in 1..Len(mine) : mine[k].is_archived

\* An unfiltered listing of a log with two sessions, one of which has an
\* older line and a newer line that is flagged archived.
C9_Witness ==
    /\ lastOp.op = "listSummaries"
    /\ lastOp.options = Unfiltered
    /\ Len(Lines(log)) = 3
    /\ Len(lastOp.result) = 2
    /\ \E i \in 1..2 :
          /\ lastOp.result[i].firstTs < lastOp.result[i].lastTs
          /\ lastOp.result[i].isArchived

\* C10: in every listSummaries result every pinned session comes before every
\* session that is not pinned, whatever their timestamps, and the sessions
\* that are not pinned are ordered by latest timestamp descending.
C10_PinnedFirstThenNewest ==
    lastOp.op = "listSummaries" =>
        LET result == lastOp.result
        IN  \A i, j \in 1..Len(result) :
               i < j => /\ result[j].pinned => result[i].pinned
                        /\ (~result[i].pinned /\ ~result[j].pinned) =>
                              result[i].lastTs >= result[j].lastTs

\* A listing of three sessions: a pinned one first, then two that are not
\* pinned and are both newer than it, the newer one first.
C10_Witness ==
    /\ lastOp.op = "listSummaries"
    /\ Len(lastOp.result) = 3
    /\ lastOp.result[1].pinned
    /\ ~lastOp.result[2].pinned
    /\ ~lastOp.result[3].pinned
    /\ lastOp.result[1].lastTs < lastOp.result[3].lastTs
    /\ lastOp.result[3].lastTs < lastOp.result[2].lastTs

\* The position of a session in the pinned list (1 = pinned last).
PinRank(pinnedList, sessionId) ==
    CHOOSE k \in 1..Len(pinnedList) : pinnedList[k] = sessionId

\* C11: pinned sessions are listed most-recently-pinned first: when X was
\* pinned and then Y, a following listSummaries shows Y before X among the
\* pinned entries, whatever the timestamps of X and Y are.
C11_MostRecentlyPinnedFirst ==
    lastOp.op = "listSummaries" =>
        LET result == lastOp.result
        IN  \A i, j \in 1..Len(result) :
               (i < j /\ result[i].pinned /\ result[j].pinned) =>
                  PinRank(pinned, result[i].sessionId) < PinRank(pinned, result[j].sessionId)

\* The terms of a search string, as a set.
TermsOf(search) == Range(SplitWhitespace(ToLowerCase(search)))

\* Whether every term of the search occurs in the lower-cased text.
HoldsAllTerms(text, search) ==
    \A term \in TermsOf(search) : Includes(ToLowerCase(text), term)

\* The ids in a listSummaries result.
ResultIds(result) == {result[i].sessionId : i \in 1..Len(result)}

C14_ListSummariesReadOnly ==
    [][lastOp'.op = "listSummaries" =>
          UNCHANGED <<files, log, pinned, remarks, stateFile>>]_vars

\* A listing made while a session is pinned and the state file on disk has
\* been damaged: the file is left as it is.
C14_Witness ==
    /\ lastOp.op = "listSummaries"
    /\ stateFile = CorruptState
    /\ pinned # <<>>
    /\ \E i \in 1..Len(lastOp.result) : lastOp.result[i].pinned

\* The remarks object a state file holds, as the set of its members.
MembersOf(file) == {<<file.remarks.items[i].key, file.remarks.items[i].value>> :
                       i \in 1..Len(file.remarks.items)}

\* C16: every mutation of the state is durable: when a pin, unpin or
\* setRemark call that changes the state returns, the state file holds
\* exactly the pinned list of the store, in the same order, and exactly its
\* remarks, so that a new StateStore that loads the file has the same state.
C16_MutationsAreDurable ==
    [][(lastOp'.op \in {"pin", "unpin", "setRemark"} /\ <<pinned, remarks>>' # <<pinned, remarks>>) =>
          /\ stateFile'.kind = "json"
          /\ stateFile'.pinned = Given(pinned')
          /\ stateFile'.remarks.given
          /\ Len(stateFile'.remarks.items) = Cardinality(DOMAIN remarks')
          /\ MembersOf(stateFile') = {<<id, remarks'[id]>> : id \in DOMAIN remarks'}
          /\ LET again == load(newStateStore(stateFile', defaults'))
             IN  again.pinned = pinned' /\ again.remarks = remarks']_vars

\* A setRemark call has changed the remarks of a store that has two pinned
\* ids and the remarks of two sessions: the state file holds the pinned list.
C16_Witness ==
    /\ lastOp.op = "setRemark"
    /\ lastOp.changed
    /\ Len(pinned) = 2
    /\ Cardinality(DOMAIN remarks) = 2
    /\ stateFile.kind = "json"
    /\ stateFile.pinned.items = pinned

\* C17: when the state file exists and cannot be read as a state, load does
\* not fail and the state is the empty defaults (nothing pinned, no remark);
\* this holds for every StateStore, also for one created after other
\* StateStore objects were loaded and changed in the same process.
C17_DamagedFileGivesEmptyState ==
    (lastOp.op = "createManager" /\ lastOp.found = "corrupt") =>
        /\ loaded
        /\ pinned = <<>>
        /\ remarks = NoRemarks

\* How often session id is reported: as the id in notFoundFiles, as the
\* path of a transcript of it in removedFiles.
TimesNotFound(notFound, id) == Cardinality({i \in 1..Len(notFound) : notFound[i] = id})
TimesRemoved(removed, id) == Cardinality({i \in 1..Len(removed) : removed[i].name.uuid = id})

\* C15: deleteSessions(ids) does not abort the batch because one id has no
\* resolvable transcript: every requested id is accounted for exactly once,
\* by a moved file in removedFiles or by the id in notFoundFiles; an id whose
\* transcript is in the trash tree already is reported in notFoundFiles and
\* its trashed file is left where it is; the other ids are still moved, and
\* the log lines of all requested ids are removed.
C15_DeleteAccountsForEveryId ==
    [][lastOp'.op = "deleteSessions" =>
         LET D == Range(lastOp'.ids)
             removed == lastOp'.removedFiles
             notFound == lastOp'.notFoundFiles
         IN  /\ Len(removed) + Len(notFound) = Cardinality(D)
             /\ \A id \in D :
                   /\ TimesRemoved(removed, id) + TimesNotFound(notFound, id) = 1
                   /\ Live(files, id) = {} =>
                         /\ TimesNotFound(notFound, id) = 1
                         /\ \A f \in TranscriptsOf(files, trashDir, id) :
                               f \in DOMAIN files' /\ files'[f] = files[f]
                   /\ Live(files, id) # {} =>
                         /\ Range(removed) \cap Live(files, id) # {}
                         /\ Live(files', id) = {}
                         /\ TranscriptsOf(files', trashDir, id) # {}
             /\ \A i \in 1..Len(Lines(log')) : ~LineOf(Lines(log')[i], D)]_vars

\* A delete of two ids: the first has its transcript in the trash already
\* and is reported as not found, the second was moved after it, and the
\* log, which had lines of a requested id, has none left.
C15_Witness ==
    /\ lastOp.op = "deleteSessions"
    /\ Len(lastOp.ids) = 2
    /\ Len(lastOp.notFoundFiles) = 1
    /\ Len(lastOp.removedFiles) = 1
    /\ lastOp.notFoundFiles[1] = lastOp.ids[1]
    /\ lastOp.notFoundFiles[1] \in SessionIds
    /\ lastOp.removedHistory > 0

\* C18: in the core of the command-line tool, deleting a session clears its
\* remark and its pin: after deleteSessions([id]) returns, getRemark(id) is
\* empty and id is not in the pinned list.
C18_DeleteClearsRemarkAndPin ==
    lastOp.op = "deleteSessions" =>
        \A id \in Range(lastOp.ids) :
           /\ getRemark(TheStore, id) = <<>>
           /\ id \notin Range(pinned)
           /\ id \notin Range(parseState(stateFile).pinned)
           /\ id \notin DOMAIN parseState(stateFile).remarks

\* The delete of session c that took its line out of the log: c had the
\* remark of the earlier process until this call (no other call clears it),
\* and another session is still pinned and has its remark.
C18_Witness ==
    /\ lastOp.op = "deleteSessions"
    /\ lastOp.ids = <<"c">>
    /\ lastOp.removedHistory = 1
    /\ pinned = <<"a">>
    /\ DOMAIN remarks = {"a"}

\* The sessions whose transcript holds boilerplate and system text only.
BoilerplateOnly == {"b"}

\* C13: a transcript file that holds only boilerplate or system text yields,
\* after indexing, a summary whose turn count is 0 and whose first text is
\* the empty-session placeholder, and such a session is never returned by
\* listRecycleBin.
C13_EmptySessionSummary ==
    /\ lastOp.op = "listSummaries" =>
          \A i \in 1..Len(lastOp.result) :
             lastOp.result[i].sessionId \in BoilerplateOnly =>
                /\ lastOp.result[i].count = 0
                /\ lastOp.result[i].firstText = EMPTY_SESSION
    /\ lastOp.op = "listRecycleBin" =>
          ResultIds(lastOp.result) \cap BoilerplateOnly = {}

C20_RebuildNeverPartial ==
    /\ writing.op = "rebuildIndex" => log \in {writing.before, writing.after}
    /\ (lastOp.op = "interrupted" /\ lastOp.during = "rebuildIndex") =>
          log \in {lastOp.before, lastOp.after}

\* C21: a deleteSessions call that fails with an I/O error while moving a
\* transcript has moved no transcript of the batch and has left the log as
\* it was.
C21_FailedDeleteChangesNothing ==
    [][(lastOp'.op = "deleteSessions" /\ ~lastOp'.ok)
          => (files' = files /\ log' = log)]_vars

\* The session a log line is of has its transcript at `f`.
LineOfFile(line, f) == line.json /\ line.session_id = f.name.uuid

\* C22: from a log that rebuildIndex has just written, after any sequence of
\* completed deleteSessions, archiveSession, unarchiveSession,
\* restoreFromRecycleBin and checkForNewSessions calls, the sessions with a
\* line in the log are the sessions with a transcript in the active or the
\* archived tree, each has exactly one line, the line is flagged archived
\* exactly when the transcript is in the archived tree, and a session with
\* its transcript in the trash has no line.
C22_LogMatchesTranscripts ==
    LET lines == Lines(log)
        indexed == {lines[i].session_id : i \in {j \in 1..Len(lines) : lines[j].json}}
    IN  /\ indexed = {f.name.uuid : f \in Indexable(files)}
        /\ \A f \in Indexable(files) :
              /\ Cardinality({i \in 1..Len(lines) : LineOfFile(lines[i], f)}) = 1
              /\ \A i \in 1..Len(lines) :
                    LineOfFile(lines[i], f) => (lines[i].is_archived = InArchivedPath(f))
        /\ \A f \in Glob(files, trashDir) : f.name.uuid \notin indexed

\* A handler that is between two of its steps.
Underway(handler) == handler.op \notin {"none", "returned"}

\* C23: the steps of two mutations of one process never overlap: while the
\* handler of one webview message is between two of its steps no step of
\* another handler is taken, so that once the handlers have returned no
\* session whose transcript a delete has moved to the trash has a line in
\* the log.
C23_HandlersDoNotOverlap ==
    /\ ~(Underway(writing.deleteSession) /\ Underway(writing.archiveToggle))
    /\ (~Underway(writing.deleteSession) /\ ~Underway(writing.archiveToggle))
          => \A f \in Glob(files, trashDir) : f.name.uuid \notin SessionsIn(log)

\* Both processes have ended their call.
BothEnded == \A proc \in Processes : writing[proc].op \in {"returned", "rejected"}

\* C24: when two processes run deleteSessions at the same time on different
\* sessions, both transcripts reach the trash, and the log they leave is
\* what one rewrite made: the log without the lines of both sessions, or
\* the log without the lines of only one of them (last writer wins).
C24_LastWriterWins ==
    BothEnded =>
        /\ \A id \in Claimed : /\ TranscriptsOf(files, trashDir, id) # {}
                               /\ findSessionFile(files, id) = Null
        /\ log \in {rewriteHistoryExcluding(lastOp.log, Claimed).log}
                   \cup {rewriteHistoryExcluding(lastOp.log, writing[proc].ids).log :
                            proc \in Processes}

\* Both calls have ended, both transcripts are in the trash, and the log
\* still holds a line of one of the two deleted sessions.
C24_Witness ==
    /\ BothEnded
    /\ Cardinality(Claimed) = 2
    /\ \A id \in Claimed : TranscriptsOf(files, trashDir, id) # {}
    /\ \E id \in Claimed : \E i \in 1..Len(Lines(log)) : LineOf(Lines(log)[i], {id})

RECURSIVE TotalTurns(_, _)
TotalTurns(lines, id) ==
    IF lines = <<>> THEN 0
    ELSE (IF LineOf(Head(lines), {id}) THEN Head(lines).turn_count ELSE 0)
         + TotalTurns(Tail(lines), id)

\* C26: the count of a summary that listSummaries returns is the sum of the
\* turn_count values of the log lines of its session, in whatever order the
\* lines are (stated here for logs whose lines all carry a turn_count of at
\* least 1, and for calls without a search).
C26_CountIsTotalTurns ==
    (lastOp.op = "listSummaries" /\ lastOp.options.search = <<>>) =>
        \A i \in 1..Len(lastOp.result) :
            lastOp.result[i].count = TotalTurns(Lines(log), lastOp.result[i].sessionId)

\* C27: checkForNewSessions leaves the lines of the log as they are and
\* appends a line only for a session that has no line in the log, so that a
\* second call right after the first appends nothing and returns 0.
C27_CheckForNewSessionsAppendsOnce ==
    [][lastOp'.op = "checkForNewSessions" =>
          /\ Len(Lines(log')) = Len(Lines(log)) + lastOp'.added
          /\ SubSeq(Lines(log'), 1, Len(Lines(log))) = Lines(log)
          /\ \A i \in (Len(Lines(log)) + 1)..Len(Lines(log')) :
                Lines(log')[i].session_id \notin SessionsIn(log)
          /\ lastOp.op = "checkForNewSessions" => (lastOp'.added = 0 /\ log' = log)]_vars

\* The sessions with a transcript in the trash whose parse counts a turn.
TrashedWithTurns(fs) ==
    {f.name.uuid : f \in {g \in Glob(fs, trashDir) :
                              /\ parseSessionFile(g, fs[g]) # Null
                              /\ parseSessionFile(g, fs[g]).turn_count >= 1}}

Malformed(lines) == SelectSeq(lines, LAMBDA line : ~line.json)

\* Whether `part` is `whole` with some of its elements left out.
RECURSIVE IsSubsequence(_, _)
IsSubsequence(part, whole) ==
    IF part = <<>> THEN TRUE
    ELSE IF whole = <<>> THEN FALSE
    ELSE IF Head(part) = Head(whole) THEN IsSubsequence(Tail(part), Tail(whole))
    ELSE IsSubsequence(part, Tail(whole))

\* C29: the log rewrite of deleteSessions never drops a line it cannot
\* parse: every malformed line of the log before the delete is in the log
\* after it, unchanged and in the same position relative to the other
\* lines, and removedHistory does not count it.
C29_MalformedLinesSurvive ==
    [][lastOp'.op = "deleteSessions" =>
         LET before == Lines(log)
             after == Lines(log')
         IN  /\ Malformed(after) = Malformed(before)
             /\ IsSubsequence(after, before)
             /\ lastOp'.removedHistory =
                    (Len(before) - Len(Malformed(before)))
                        - (Len(after) - Len(Malformed(after)))]_vars

\* A delete that removed one line from a log with two malformed lines and
\* kept both of them.
C29_Witness ==
    /\ lastOp.op = "deleteSessions"
    /\ lastOp.removedHistory = 1
    /\ Lines(log) = <<MalformedLine("x", 60), MalformedLine("y", 70)>>

\* Whether the call recorded in `op` asks for what the store `store` already
\* holds: a pin of a pinned id, an unpin of an id that is not pinned, or a
\* remark whose trimmed text is the remark the session has ('' if none).
AsksForNoChange(op, store) ==
    \/ op.op = "pin" /\ op.id \in Range(store.pinned)
    \/ op.op = "unpin" /\ op.id \notin Range(store.pinned)
    \/ op.op = "setRemark" /\ Trim(op.remark) = getRemark(store, op.id)

\* C30: the mutators of the state store write only on change: pin of a
\* pinned id, unpin of an id that is not pinned and setRemark with a text
\* whose trimmed form is the remark the session already has (clearing a
\* remark that does not exist included) change neither the state in memory
\* nor the state file; a second pin leaves the pin order as it is.
C30_MutatorsWriteOnlyOnChange ==
    [][AsksForNoChange(lastOp', TheStore) =>
          /\ pinned' = pinned
          /\ remarks' = remarks
          /\ stateFile' = stateFile]_vars

====
